---- MODULE Spec2Model ----
(***************************************************************************)
(* Model of the ContentVerification registry (contracts/                   *)
(* ContentVerification.sol) and of the backend ingestion service that      *)
(* registers news articles on it (backend/src/services).                   *)
(*                                                                         *)
(* The ledger executes one transaction at a time: every external call of   *)
(* the contract is one atomic action.  A transaction that hits a failing   *)
(* require reverts: storage and the event log are left as they were, and   *)
(* only the outcome seen by the caller (result) records the error string.  *)
(* block.timestamp is an input of the transaction: the timestamp of the    *)
(* last block that recorded one (blockTimestamp) when mined in that block, *)
(* or a later one; only the order of timestamps matters, so a later block  *)
(* is one tick later.  A block that records no timestamp leaves            *)
(* blockTimestamp as it is.                                                *)
(* uint256 counters cannot wrap here: Solidity 0.8 arithmetic is checked   *)
(* and every counter is bounded by the number of mined transactions.       *)
(***************************************************************************)
EXTENDS Integers, Sequences, FiniteSets, TLC

\* ---------------------------------------------------------------- bounds
\* block.timestamp ranges over 1 .. MaxTime
MaxTime == 2
\* length of the event log (each successful transaction emits exactly one
\* event); no further call is made once the log is full
MaxEvents == 3
\* minutes the clock of the client's cache runs
MaxClock == 6

\* ---------------------------------------------------------------- inputs
ZeroAddress == "0x0"
Deployer == "owner"
BackendWallet == "backend"
Accounts == {Deployer, "alice", BackendWallet}
\* the keys of the address-keyed mappings
Addresses == Accounts \cup {ZeroAddress}
\* fingerprints: bytes32(0) and two digests
Hashes == {0, 1, 2}
\* the accounts that send transactions by hand
Users == {Deployer, "alice"}
\* (contentType, ipfsMetadata) arguments of registerContent: two valid pairs,
\* an unknown type, an empty pointer, and both
RegisterInputs ==
    {<<"article", "QmA">>, <<"video", "QmB">>, <<"podcast", "QmA">>,
     <<"article", "">>, <<"podcast", "">>}

\* ---------------------------------------------------------------- contract state
VARIABLES contentRegistry, publisherContent, publisherReputations,
          totalRegistrations, owner, paused, events, blockTimestamp, result

\* ---------------------------------------------------------------- backend state
\* registeredHashes: the Set kept by the one BlockchainService object;
\* run[r]: the registerArticle call in progress in ingestion run r
VARIABLES registeredHashes, run

storage == <<contentRegistry, publisherContent, publisherReputations,
             totalRegistrations, owner, paused>>
chain == <<contentRegistry, publisherContent, publisherReputations,
           totalRegistrations, owner, paused, events>>

\* ---------------------------------------------------------------- client state
\* lookup: the getPublisherContent call of the web client in progress;
\* portal: the React state of VerificationPortal and the position of its
\* handleSearch call; search: the searchVerifiedNews call in progress
VARIABLES lookup, portal, search

\* blocks: the number of the latest block and the block of each entry of the
\* event log; recent: the getRecentRegistrations call in progress; call: the
\* read operation of the client in progress; analysis: the analyzeNewsContent
\* call in progress; cache: the clock of the browser, the ipfsCache map and
\* the fetchIPFSWithCache call in progress; dashboard: the React state of
\* PublisherDashboard and the position of its handleRegister call
VARIABLES blocks, recent, call, analysis, cache, dashboard

backend == <<registeredHashes, run>>
pages == <<blocks, recent, call, analysis, cache, dashboard>>
client == <<lookup, portal, search, pages>>
offchain == <<registeredHashes, run, lookup, portal, search, pages>>
vars == <<contentRegistry, publisherContent, publisherReputations,
          totalRegistrations, owner, paused, events, blockTimestamp, result,
          registeredHashes, run, lookup, portal, search,
          blocks, recent, call, analysis, cache, dashboard>>

\* struct Content of an unwritten mapping slot
NoContent ==
    [contentHash |-> 0, timestamp |-> 0, publisher |-> ZeroAddress,
     contentType |-> "", ipfsMetadata |-> "", exists |-> FALSE]

\* struct PublisherReputation of an unwritten mapping slot
NoReputation ==
    [totalRegistrations |-> 0, verificationCount |-> 0, reputationScore |-> 0]

\* the tuple verifyContent returns
VerifyReturn(content) ==
    [exists |-> content.exists, publisher |-> content.publisher,
     timestamp |-> content.timestamp, contentType |-> content.contentType,
     ipfsMetadata |-> content.ipfsMetadata]

\* what the caller observes of the last call: which function it was, whether
\* it reverted and with which message, and the returned values
NoResult ==
    [op |-> "none", ok |-> TRUE, error |-> "",
     verify |-> VerifyReturn(NoContent), content |-> NoContent,
     list |-> <<>>, rep |-> NoReputation, count |-> 0]

\* ---------------------------------------------------------------- modifiers
ValidTypes == {"article", "image", "video"}

\* registerContent without its "Content already registered" require
RegisterRevert_NoDuplicateCheck(h, t, m) ==
    IF paused THEN "Contract is paused"
    ELSE IF t \notin {"article", "image", "video"} THEN "Invalid content type"
    ELSE IF h = 0 THEN "Content hash cannot be empty"
    ELSE IF m = "" THEN "IPFS metadata required"
    ELSE ""

\* registerContent without the whenNotPaused modifier
RegisterRevert_NoPauseCheck(h, t, m) ==
    IF t \notin {"article", "image", "video"} THEN "Invalid content type"
    ELSE IF h = 0 THEN "Content hash cannot be empty"
    ELSE IF contentRegistry[h].exists THEN "Content already registered"
    ELSE IF m = "" THEN "IPFS metadata required"
    ELSE ""

\* registerContent with the two requires of its body ahead of its modifiers:
\* the zero fingerprint is looked at before the pause flag and the category
RegisterRevert_HashBeforeModifiers(h, t, m) ==
    IF h = 0 THEN "Content hash cannot be empty"
    ELSE IF paused THEN "Contract is paused"
    ELSE IF t \notin {"article", "image", "video"} THEN "Invalid content type"
    ELSE IF contentRegistry[h].exists THEN "Content already registered"
    ELSE IF m = "" THEN "IPFS metadata required"
    ELSE ""

\* the message of the first failing require of registerContent, "" if none
RegisterRevert(h, t, m) ==
    IF paused THEN "Contract is paused"
    ELSE IF t \notin ValidTypes THEN "Invalid content type"
    ELSE IF h = 0 THEN "Content hash cannot be empty"
    ELSE IF contentRegistry[h].exists THEN "Content already registered"
    ELSE IF m = "" THEN "IPFS metadata required"
    ELSE ""

\* onlyOwner that lets every sender through
OnlyOwnerRevert_Anyone(sender) == ""

OnlyOwnerRevert(sender) ==
    IF sender # owner THEN "Only owner can call this function" ELSE ""

\* ---------------------------------------------------------------- events
ContentRegistered(h, sender, ts, t, m) ==
    [name |-> "ContentRegistered", contentHash |-> h, account |-> sender,
     timestamp |-> ts, contentType |-> t, ipfsMetadata |-> m, exists |-> TRUE]

ContentVerified(h, ex, sender) ==
    [name |-> "ContentVerified", contentHash |-> h, account |-> sender,
     timestamp |-> 0, contentType |-> "", ipfsMetadata |-> "", exists |-> ex]

ContractPaused(sender, ts) ==
    [name |-> "ContractPaused", contentHash |-> 0, account |-> sender,
     timestamp |-> ts, contentType |-> "", ipfsMetadata |-> "", exists |-> FALSE]

ContractUnpaused(sender, ts) ==
    [name |-> "ContractUnpaused", contentHash |-> 0, account |-> sender,
     timestamp |-> ts, contentType |-> "", ipfsMetadata |-> "", exists |-> FALSE]

\* ---------------------------------------------------------------- registerContent
\* the block.timestamp values the next transaction can see
BlockTimestamps ==
    {ts \in {blockTimestamp, blockTimestamp + 1} : ts <= MaxTime}

NewContent(h, sender, t, m, ts) ==
    [contentHash |-> h, timestamp |-> ts, publisher |-> sender,
     contentType |-> t, ipfsMetadata |-> m, exists |-> TRUE]

\* a registration rewarded like a verification
ReputationAfterRegister_Plus5(rep) ==
    [rep EXCEPT !.totalRegistrations = @ + 1, !.reputationScore = @ + 5]

\* a registration that forgets the publisher's own counter
ReputationAfterRegister_NoCount(rep) ==
    [rep EXCEPT !.reputationScore = @ + 10]

ReputationAfterRegister(rep) ==
    [rep EXCEPT !.totalRegistrations = @ + 1, !.reputationScore = @ + 10]

\* a verification that forgets verificationCount
ReputationAfterVerify_NoCount(rep) ==
    [rep EXCEPT !.reputationScore = @ + 5]

ReputationAfterVerify(rep) ==
    [rep EXCEPT !.verificationCount = @ + 1, !.reputationScore = @ + 5]

\* verifyContent without its if (content.exists)
ReputationsAfterVerify_Unconditional(content) ==
    [publisherReputations EXCEPT
        ![content.publisher] =
            [@ EXCEPT !.verificationCount = @ + 1, !.reputationScore = @ + 5]]

\* the reputation mapping after verifyContent read the struct content
ReputationsAfterVerify(content) ==
    IF content.exists
    THEN [publisherReputations EXCEPT
             ![content.publisher] = ReputationAfterVerify(@)]
    ELSE publisherReputations

\* registerContent that counts the attempt before its requires and reports
\* the failure without reverting
registerContent_CountsAttempts(sender, h, t, m) ==
    /\ Len(events) < MaxEvents
    /\ LET err == RegisterRevert(h, t, m) IN
       IF err # ""
       THEN /\ result' = [NoResult EXCEPT !.op = "registerContent",
                            !.ok = FALSE, !.error = err]
            /\ totalRegistrations' = totalRegistrations + 1
            /\ UNCHANGED <<contentRegistry, publisherContent,
                           publisherReputations, owner, paused, events,
                           blockTimestamp>>
       ELSE \E ts \in BlockTimestamps :
            /\ contentRegistry' =
                   [contentRegistry EXCEPT
                       ![h] = NewContent(h, sender, t, m, ts)]
            /\ publisherContent' =
                   [publisherContent EXCEPT ![sender] = Append(@, h)]
            /\ publisherReputations' =
                   [publisherReputations EXCEPT
                       ![sender] = ReputationAfterRegister(@)]
            /\ totalRegistrations' = totalRegistrations + 1
            /\ events' = Append(events,
                   ContentRegistered(h, sender, ts, t, m))
            /\ result' = [NoResult EXCEPT !.op = "registerContent"]
            /\ blockTimestamp' = ts
            /\ UNCHANGED <<owner, paused>>

registerContent(sender, h, t, m) ==
    /\ Len(events) < MaxEvents
    /\ LET err == RegisterRevert(h, t, m) IN
       IF err # ""
       THEN /\ result' = [NoResult EXCEPT !.op = "registerContent",
                            !.ok = FALSE, !.error = err]
            /\ UNCHANGED <<chain, blockTimestamp>>
       ELSE \E ts \in BlockTimestamps :
            /\ contentRegistry' =
                   [contentRegistry EXCEPT
                       ![h] = NewContent(h, sender, t, m, ts)]
            /\ publisherContent' =
                   [publisherContent EXCEPT ![sender] = Append(@, h)]
            /\ publisherReputations' =
                   [publisherReputations EXCEPT
                       ![sender] = ReputationAfterRegister(@)]
            /\ totalRegistrations' = totalRegistrations + 1
            /\ events' = Append(events,
                   ContentRegistered(h, sender, ts, t, m))
            /\ result' = [NoResult EXCEPT !.op = "registerContent"]
            /\ blockTimestamp' = ts
            /\ UNCHANGED <<owner, paused>>

\* ---------------------------------------------------------------- verifyContent
\* verifyContent carrying the whenNotPaused modifier
verifyContent_WhenNotPaused(sender, h) ==
    /\ Len(events) < MaxEvents
    /\ IF paused
       THEN /\ result' = [NoResult EXCEPT !.op = "verifyContent",
                            !.ok = FALSE, !.error = "Contract is paused"]
            /\ UNCHANGED <<chain, blockTimestamp>>
       ELSE LET content == contentRegistry[h] IN
            /\ publisherReputations' = ReputationsAfterVerify(content)
            /\ events' = Append(events,
                   ContentVerified(h, content.exists, sender))
            /\ result' = [NoResult EXCEPT !.op = "verifyContent",
                            !.verify = VerifyReturn(content)]
            /\ UNCHANGED <<contentRegistry, publisherContent,
                           totalRegistrations, owner, paused, blockTimestamp>>

verifyContent(sender, h) ==
    /\ Len(events) < MaxEvents
    /\ LET content == contentRegistry[h] IN
       /\ publisherReputations' = ReputationsAfterVerify(content)
       /\ events' = Append(events, ContentVerified(h, content.exists, sender))
       /\ result' = [NoResult EXCEPT !.op = "verifyContent",
                       !.verify = VerifyReturn(content)]
    /\ UNCHANGED <<contentRegistry, publisherContent, totalRegistrations,
                   owner, paused, blockTimestamp>>

\* ---------------------------------------------------------------- view functions
getPublisherContent(p) ==
    /\ result' = [NoResult EXCEPT !.op = "getPublisherContent",
                    !.list = publisherContent[p]]
    /\ UNCHANGED <<chain, blockTimestamp>>

getPublisherReputation(p) ==
    /\ result' = [NoResult EXCEPT !.op = "getPublisherReputation",
                    !.rep = publisherReputations[p]]
    /\ UNCHANGED <<chain, blockTimestamp>>

getTotalRegistrations ==
    /\ result' = [NoResult EXCEPT !.op = "getTotalRegistrations",
                    !.count = totalRegistrations]
    /\ UNCHANGED <<chain, blockTimestamp>>

getContentDetails(h) ==
    /\ result' = [NoResult EXCEPT !.op = "getContentDetails",
                    !.content = contentRegistry[h]]
    /\ UNCHANGED <<chain, blockTimestamp>>

\* ---------------------------------------------------------------- pause / unpause
pause(sender) ==
    /\ Len(events) < MaxEvents
    /\ LET err == OnlyOwnerRevert(sender) IN
       IF err # ""
       THEN /\ result' = [NoResult EXCEPT !.op = "pause",
                            !.ok = FALSE, !.error = err]
            /\ UNCHANGED <<chain, blockTimestamp>>
       ELSE \E ts \in BlockTimestamps :
            /\ paused' = TRUE
            /\ events' = Append(events, ContractPaused(sender, ts))
            /\ blockTimestamp' = ts
            /\ result' = [NoResult EXCEPT !.op = "pause"]
            /\ UNCHANGED <<contentRegistry, publisherContent,
                           publisherReputations, totalRegistrations, owner>>

unpause(sender) ==
    /\ Len(events) < MaxEvents
    /\ LET err == OnlyOwnerRevert(sender) IN
       IF err # ""
       THEN /\ result' = [NoResult EXCEPT !.op = "unpause",
                            !.ok = FALSE, !.error = err]
            /\ UNCHANGED <<chain, blockTimestamp>>
       ELSE \E ts \in BlockTimestamps :
            /\ paused' = FALSE
            /\ events' = Append(events, ContractUnpaused(sender, ts))
            /\ blockTimestamp' = ts
            /\ result' = [NoResult EXCEPT !.op = "unpause"]
            /\ UNCHANGED <<contentRegistry, publisherContent,
                           publisherReputations, totalRegistrations, owner>>

\* ---------------------------------------------------------------- backend ingestion
\* two ticks of cron.schedule whose fetchAndRegisterNews callbacks overlap
Runs == {"tick1", "tick2"}

\* articles returned by the news API; the first two are the same headline
\* fetched twice with a different description
Articles ==
    {[title |-> "Flood", sourceId |-> "bbc-news", publishedAt |-> "T1",
      description |-> "first"],
     [title |-> "Flood", sourceId |-> "bbc-news", publishedAt |-> "T1",
      description |-> "updated"],
     [title |-> "Vote", sourceId |-> "reuters", publishedAt |-> "T2",
      description |-> "first"]}

\* SHA-256 as a table: the digest of a string is its position in the list of
\* strings hashed in this model (injective, never bytes32(0))
Sha256Preimages == <<"Flood|bbc-news|T1", "Vote|reuters|T2">>

Sha256(content) ==
    CHOOSE i \in 1..Len(Sha256Preimages) : Sha256Preimages[i] = content

generateContentHash(article) ==
    Sha256(article.title \o "|" \o article.sourceId \o "|" \o article.publishedAt)

\* what uploadToIPFS may return: the pinned hash, or '' when the upload failed
UploadResults == {"", "QmA"}

IdleRun == [pc |-> "idle", contentHash |-> 0, ipfsHash |-> "",
            success |-> FALSE, reason |-> ""]

\* isRegistered: the local Set first, then the contentRegistry getter; an RPC
\* error is caught and answered false
isRegistered(contentHash, rpcFails) ==
    IF contentHash \in registeredHashes THEN TRUE
    ELSE IF rpcFails THEN FALSE
    ELSE contentRegistry[contentHash].exists

\* registerArticle up to the first await after the check: fingerprint the
\* article and return early when it is already registered
BackendCheck(r, article, rpcFails) ==
    /\ run[r].pc = "idle"
    /\ LET contentHash == generateContentHash(article) IN
       run' = [run EXCEPT ![r] =
                 IF isRegistered(contentHash, rpcFails)
                 THEN [IdleRun EXCEPT !.contentHash = contentHash,
                                      !.reason = "already-registered"]
                 ELSE [IdleRun EXCEPT !.pc = "upload",
                                      !.contentHash = contentHash]]
    /\ UNCHANGED <<chain, blockTimestamp, result, registeredHashes, client>>

\* await this.uploadToIPFS(article, pinataJwt)
BackendUpload(r, ipfsHash) ==
    /\ run[r].pc = "upload"
    /\ run' = [run EXCEPT ![r].pc = "register", ![r].ipfsHash = ipfsHash]
    /\ UNCHANGED <<chain, blockTimestamp, result, registeredHashes, client>>

\* contract.registerContent(contentHash, 'article', ipfsHash) and tx.wait():
\* the transaction executes at its place in the ledger's order; a revert is
\* caught and reported with success false
BackendRegister(r) ==
    /\ run[r].pc = "register"
    /\ registerContent(BackendWallet, run[r].contentHash, "article",
                       run[r].ipfsHash)
    /\ IF result'.ok
       THEN /\ registeredHashes' = registeredHashes \cup {run[r].contentHash}
            /\ run' = [run EXCEPT ![r].pc = "idle", ![r].success = TRUE]
       ELSE /\ registeredHashes' = registeredHashes
            /\ run' = [run EXCEPT ![r].pc = "idle",
                                  ![r].reason = result'.error]
    /\ UNCHANGED client

\* contract.registerContent(...) is sent and executes, then tx.wait()
\* rejects (the connection to the node is lost): caught and reported with
\* success false; the Set is not updated
BackendWaitFails(r) ==
    /\ run[r].pc = "register"
    /\ registerContent(BackendWallet, run[r].contentHash, "article",
                       run[r].ipfsHash)
    /\ registeredHashes' = registeredHashes
    /\ run' = [run EXCEPT ![r].pc = "idle",
                          ![r].reason = IF result'.ok THEN "timeout"
                                        ELSE result'.error]
    /\ UNCHANGED client

\* the service is stopped and started again: new BlockchainService(...)
\* begins with an empty Set, the calls that were under way are gone
BackendRestart ==
    /\ registeredHashes' = {}
    /\ run' = [r \in Runs |-> IdleRun]
    /\ UNCHANGED <<chain, blockTimestamp, result, client>>

\* ---------------------------------------------------------------- client: getPublisherContent
\* (frontend/src/utils/blockchain.ts) the client enumerates a publisher's
\* index through the getter of the public array, one eth_call per position
IdleLookup ==
    [pc |-> "idle", publisherAddress |-> ZeroAddress, index |-> 0,
     hashes |-> <<>>]

\* const hashes = []; let index = 0
ClientGetPublisherContent(publisherAddress) ==
    /\ lookup.pc # "loop"
    /\ lookup' = [pc |-> "loop", publisherAddress |-> publisherAddress,
                  index |-> 0, hashes |-> <<>>]
    /\ UNCHANGED <<chain, blockTimestamp, result, backend, portal, search,
                   pages>>

\* one iteration of while (true): await contract.publisherContent(address,
\* index).  The call throws when the position is past the end of the array
\* (the getter reverts) and when the RPC request fails; the inner catch
\* breaks on either, and so does a zero hash; the hashes pushed so far are
\* returned
ClientReadIndex(rpcFails) ==
    /\ lookup.pc = "loop"
    /\ LET list == publisherContent[lookup.publisherAddress]
           thrown == rpcFails \/ lookup.index >= Len(list)
       IN IF thrown \/ list[lookup.index + 1] = 0
          THEN lookup' = [lookup EXCEPT !.pc = "returned"]
          ELSE lookup' = [lookup EXCEPT
                             !.hashes = Append(@, list[lookup.index + 1]),
                             !.index = @ + 1]
    /\ UNCHANGED <<chain, blockTimestamp, result, backend, portal, search,
                   pages>>

\* ---------------------------------------------------------------- strings
\* JavaScript strings are TLA+ strings; a character is a string of length 1
\* the characters \\s matches and trim() removes, as far as they occur here
Whitespace == {" ", "\t"}

CharAt(str, i) == SubSeq(str, i, i)

UpperCaseLetters ==
    <<"A", "B", "C", "D", "E", "F", "G", "H", "I", "J", "K", "L", "M",
      "N", "O", "P", "Q", "R", "S", "T", "U", "V", "W", "X", "Y", "Z">>
LowerCaseLetters ==
    <<"a", "b", "c", "d", "e", "f", "g", "h", "i", "j", "k", "l", "m",
      "n", "o", "p", "q", "r", "s", "t", "u", "v", "w", "x", "y", "z">>

ToLowerChar(c) ==
    IF \E i \in DOMAIN UpperCaseLetters : UpperCaseLetters[i] = c
    THEN LowerCaseLetters[CHOOSE i \in DOMAIN UpperCaseLetters :
                             UpperCaseLetters[i] = c]
    ELSE c

\* String.prototype.toLowerCase
RECURSIVE toLowerCase(_)
toLowerCase(str) ==
    IF str = "" THEN ""
    ELSE ToLowerChar(Head(str)) \o toLowerCase(Tail(str))

RECURSIVE trimStart(_)
trimStart(str) ==
    IF str # "" /\ Head(str) \in Whitespace THEN trimStart(Tail(str))
    ELSE str

RECURSIVE trimEnd(_)
trimEnd(str) ==
    IF str # "" /\ CharAt(str, Len(str)) \in Whitespace
    THEN trimEnd(SubSeq(str, 1, Len(str) - 1))
    ELSE str

\* String.prototype.trim
trim(str) == trimEnd(trimStart(str))

\* String.prototype.includes: every string includes the empty string
includes(str, searchString) ==
    \E i \in 0..(Len(str) - Len(searchString)) :
        SubSeq(str, i + 1, i + Len(searchString)) = searchString

\* the part of str before its first whitespace character (all of it if none)
RECURSIVE BeforeWhitespace(_)
BeforeWhitespace(str) ==
    IF str = "" \/ Head(str) \in Whitespace THEN ""
    ELSE Head(str) \o BeforeWhitespace(Tail(str))

\* String.prototype.split(/\\s+/): the pieces between the maximal runs of
\* whitespace; a string that begins (ends) with whitespace has an empty first
\* (last) piece, and the empty string splits into one empty piece
RECURSIVE split(_)
split(str) ==
    LET piece == BeforeWhitespace(str)
        rest == SubSeq(str, Len(piece) + 1, Len(str))
    IN IF rest = "" THEN <<piece>>
       ELSE <<piece>> \o split(trimStart(rest))

\* Math.round(x) for x = num / den, den > 0: halves round up
MathRound(num, den) == (2 * num + den) \div (2 * den)

\* ---------------------------------------------------------------- searchVerifiedNews
\* titleWords.some(tw => tw.includes(sw) || sw.includes(tw))
MatchesTitleWord(sw, titleWords) ==
    \E k \in DOMAIN titleWords :
        includes(titleWords[k], sw) \/ includes(sw, titleWords[k])

\* the containment tier testing one direction only
ContainmentTier_TitleIncludesOnly(titleLower, searchLower) ==
    includes(titleLower, searchLower)

\* titleLower.includes(searchLower) || searchLower.includes(titleLower)
ContainmentTier(titleLower, searchLower) ==
    includes(titleLower, searchLower) \/ includes(searchLower, titleLower)

\* a similarity that falls back to the middle of the scale when no word of
\* the query is long enough to be compared
Similarity_NeutralDefault(title, searchLower) ==
    LET titleLower == toLowerCase(title) IN
    IF titleLower = searchLower THEN 100
    ELSE IF ContainmentTier(titleLower, searchLower) THEN 80
    ELSE LET searchWords == SelectSeq(split(searchLower),
                                      LAMBDA w : Len(w) > 3)
             titleWords == split(titleLower)
             matchedWords == SelectSeq(searchWords,
                                LAMBDA sw : MatchesTitleWord(sw, titleWords))
         IN IF Len(searchWords) > 0
            THEN MathRound(Len(matchedWords) * 100, Len(searchWords))
            ELSE 50

\* the similarity of one candidate: the body of the for loop up to the
\* threshold test
Similarity(title, searchLower) ==
    LET titleLower == toLowerCase(title) IN
    IF titleLower = searchLower THEN 100
    ELSE IF ContainmentTier(titleLower, searchLower) THEN 80
    ELSE LET searchWords == SelectSeq(split(searchLower),
                                      LAMBDA w : Len(w) > 3)
             titleWords == split(titleLower)
             matchedWords == SelectSeq(searchWords,
                                LAMBDA sw : MatchesTitleWord(sw, titleWords))
         IN IF Len(searchWords) > 0
            THEN MathRound(Len(matchedWords) * 100, Len(searchWords))
            ELSE 0

\* insertion of a match into a list sorted by similarity, highest first,
\* after the matches that score the same (Array.prototype.sort is stable)
RECURSIVE InsertMatch(_, _)
InsertMatch(sorted, m) ==
    IF sorted = <<>> THEN <<m>>
    ELSE IF Head(sorted).similarity >= m.similarity
         THEN <<Head(sorted)>> \o InsertMatch(Tail(sorted), m)
         ELSE <<m>> \o sorted

\* matches.sort((a, b) => b.similarity - a.similarity)
RECURSIVE SortMatches(_)
SortMatches(matches) ==
    IF matches = <<>> THEN <<>>
    ELSE InsertMatch(SortMatches(SubSeq(matches, 1, Len(matches) - 1)),
                     matches[Len(matches)])

\* the strings searched for and the titles of the fetched metadata: every
\* string of up to three characters over a lower-case letter, an upper-case
\* letter and the blank, and phrases of words, some with a blank before or
\* after
ShortChars == {"a", "B", " "}
ShortTexts ==
    {""} \cup ShortChars
         \cup {c \o d : c, d \in ShortChars}
         \cup {c \o d \o e : c, d, e \in ShortChars}
QueryWords == {"scientists", "find", "planet.", "international", "quake"}
TitleWords == {"Scientists", "Find", "Discover", "New", "Planet", "nation", "a"}
TitlePhrases ==
    TitleWords \cup {v \o " " \o w : v, w \in TitleWords}
               \cup {"Scientists Find New Planet",
                     "Scientists Discover New Planet"}
Titles ==
    ShortTexts \cup TitlePhrases \cup {p \o " " : p \in TitlePhrases}
               \cup {" " \o w : w \in TitleWords}
SearchQueries ==
    ShortTexts \cup QueryWords
               \cup {v \o " " \o w : v, w \in QueryWords}
               \cup {u \o " " \o v \o " " \o w : u, v, w \in QueryWords}
               \cup {w \o " " : w \in QueryWords}
               \cup TitleWords \cup {w \o " " : w \in TitleWords}
               \cup {"New  Planet", "Scientists Find New Planet "}
\* the metadata fetched for one article registration, as far as the loop
\* reads it: its title field, a string (TitleOf) or the number 42 (the JSON is
\* whatever the pointer's owner stored); "" stands for metadata without a
\* title and for a pointer whose metadata could not be fetched
TitleOf(t) == [title |-> t, typeofTitle |-> "string"]
NumberTitle == [title |-> "42", typeofTitle |-> "number"]
\* thirteen articles of which twelve have a title with the word Find
FindTitles ==
    <<"Find New", "New Find", "Find Planet", "Planet Find", "Scientists Find",
      "Find a", "", "a Find", "Discover Find", "Find Discover",
      "Scientists Find New Planet", "Find nation", "Find">>
CandidateLists ==
    {<<TitleOf(t)>> : t \in Titles}
        \cup {[k \in 1..2 |->
                 TitleOf(<<"Scientists Find New Planet",
                           "Scientists Discover New Planet">>[k])],
              [k \in 1..3 |-> TitleOf(<<"", "New Planet", "nation a">>[k])],
              [k \in 1..13 |-> TitleOf(FindTitles[k])],
              [k \in 1..13 |-> TitleOf(FindTitles[14 - k])],
              <<TitleOf("Find"), NumberTitle, TitleOf("Planet")>>}

\* index: the number of candidates the for loop has been through; similarity:
\* the score of the last of them that has a title
IdleSearch ==
    [pc |-> "idle", searchQuery |-> "", searchLower |-> "",
     metadataResults |-> <<>>, index |-> 0, similarity |-> 0,
     matches |-> <<>>, found |-> FALSE]

\* searchVerifiedNews up to its for loop; titles: the title of the metadata
\* fetched for each article registration of the window
SearchVerifiedNews ==
    /\ search.pc = "idle"
    /\ \E searchQuery \in SearchQueries, titles \in CandidateLists :
          search' = [IdleSearch EXCEPT
                       !.pc = "for", !.searchQuery = searchQuery,
                       !.searchLower = trim(toLowerCase(searchQuery)),
                       !.metadataResults = titles]
    /\ UNCHANGED <<chain, blockTimestamp, result, backend, lookup, portal,
                   pages>>

\* one iteration of for (const { reg, metadata } of metadataResults)
SearchScoreCandidate ==
    /\ search.pc = "for"
    /\ search.index < Len(search.metadataResults)
    /\ search.metadataResults[search.index + 1].typeofTitle = "string"
    /\ LET title == search.metadataResults[search.index + 1].title
           similarity == Similarity(title, search.searchLower)
       IN search' =
            IF title = ""
            THEN [search EXCEPT !.index = @ + 1]
            ELSE [search EXCEPT
                    !.index = @ + 1, !.similarity = similarity,
                    !.matches =
                        IF similarity >= 50
                        THEN Append(@, [title |-> title,
                                        similarity |-> similarity])
                        ELSE @]
    /\ UNCHANGED <<chain, blockTimestamp, result, backend, lookup, portal,
                   pages>>

\* meta.title.toLowerCase() of a title that is not a string throws a
\* TypeError inside the loop: the catch of searchVerifiedNews answers
\* { found: false, matches: [] }
SearchCatch ==
    /\ search.pc = "for"
    /\ search.index < Len(search.metadataResults)
    /\ search.metadataResults[search.index + 1].typeofTitle # "string"
    /\ search' = [search EXCEPT
                    !.pc = "returned", !.found = FALSE, !.matches = <<>>]
    /\ UNCHANGED <<chain, blockTimestamp, result, backend, lookup, portal,
                   pages>>

\* after the loop: sort by similarity, return the first ten
SearchReturn ==
    /\ search.pc = "for"
    /\ search.index = Len(search.metadataResults)
    /\ LET sorted == SortMatches(search.matches) IN
       search' = [search EXCEPT
                    !.pc = "returned", !.found = Len(sorted) > 0,
                    !.matches = SubSeq(sorted, 1,
                                   IF Len(sorted) < 10 THEN Len(sorted)
                                   ELSE 10)]
    /\ UNCHANGED <<chain, blockTimestamp, result, backend, lookup, portal,
                   pages>>

\* ---------------------------------------------------------------- client: verifyContent
\* what the client's verifyContent answers for a missing record, and when its
\* call of the contract failed
NotFound ==
    [exists |-> FALSE, publisher |-> "", timestamp |-> 0, contentType |-> "",
     ipfsMetadata |-> ""]

\* the client's verifyContent: an eth_call of the getter of the public
\* mapping contentRegistry through the read-only provider; no transaction is
\* sent and the contract's verifyContent is not called
ClientVerifyContent(contentHash, rpcFails) ==
    IF rpcFails THEN NotFound
    ELSE LET content == contentRegistry[contentHash] IN
         IF ~content.exists THEN NotFound
         ELSE [exists |-> TRUE, publisher |-> content.publisher,
               timestamp |-> content.timestamp,
               contentType |-> content.contentType,
               ipfsMetadata |-> content.ipfsMetadata]

\* ---------------------------------------------------------------- VerificationPortal.handleSearch
\* what the user can have typed, and the digest of what is hashed
PortalQueries == {"", " ", "flood in town", "vote today "}
\* searchQuery.trim()
TrimQuery(q) == trim(q)
\* hexToBytes32(generateContentHash(text)) and, for the selected image,
\* hexToBytes32(generateFileHash(file)): SHA-256 as a table
PortalDigest ==
    [t \in {"flood in town", "vote today", "image"} |->
        CASE t = "flood in town" -> 1
          [] t = "vote today" -> 2
          [] OTHER -> 1]

NoMatch ==
    [found |-> FALSE, contentHash |-> 0, publisher |-> "", timestamp |-> 0,
     contentType |-> "", ipfsMetadata |-> ""]

\* the calls of handleSearch that can be under way at once
PortalRuns == {1, 2}

\* the local state of one call of handleSearch; searchQuery: the text of
\* the render it was called in; started: the asynchronous operations it has
\* called, in call order; result: what analyzeNewsImage returned to it
IdleHandler ==
    [pc |-> "idle", verificationMode |-> "text", searchQuery |-> "",
     bytes32Hash |-> 0, result |-> "", started |-> <<>>]

\* the state of the component; latest: the call of handleSearch started last
IdlePortal ==
    [isSearching |-> FALSE, hasSearched |-> FALSE,
     exactBlockchainMatch |-> NoMatch, imageBlockchainMatch |-> NoMatch,
     searchResults |-> "null", aiAnalysis |-> "null", imageAnalysis |-> "null",
     activeTab |-> "blockchain", toast |-> "", latest |-> 0,
     run |-> [r \in PortalRuns |-> IdleHandler]]

\* handleSearch up to its first await of verifyContent
HandleSearch(r, verificationMode, selectedImage, searchQuery, fileReadFails) ==
    /\ portal.run[r].pc \in {"idle", "done"}
    /\ IF verificationMode = "image" /\ selectedImage
       THEN portal' =
              IF fileReadFails
              THEN [IdlePortal EXCEPT
                      !.hasSearched = TRUE,
                      !.exactBlockchainMatch = portal.exactBlockchainMatch,
                      !.activeTab = portal.activeTab,
                      !.toast = "Failed to analyze image",
                      !.latest = r,
                      !.run = [portal.run EXCEPT ![r] =
                                 [IdleHandler EXCEPT
                                    !.pc = "done",
                                    !.verificationMode = "image"]]]
              ELSE [IdlePortal EXCEPT
                      !.isSearching = TRUE, !.hasSearched = TRUE,
                      !.exactBlockchainMatch = portal.exactBlockchainMatch,
                      !.activeTab = portal.activeTab,
                      !.toast = "Checking blockchain registry...",
                      !.latest = r,
                      !.run = [portal.run EXCEPT ![r] =
                                 [IdleHandler EXCEPT
                                    !.pc = "verify",
                                    !.verificationMode = "image",
                                    !.bytes32Hash = PortalDigest["image"],
                                    !.started = <<"verifyContent">>]]]
       ELSE IF TrimQuery(searchQuery) = ""
       THEN portal' = [portal EXCEPT
                         !.toast = "Please enter news content to verify",
                         !.run[r] = [@ EXCEPT !.pc = "done",
                                              !.started = <<>>]]
       ELSE portal' =
              [IdlePortal EXCEPT
                 !.isSearching = TRUE, !.hasSearched = TRUE,
                 !.imageBlockchainMatch = portal.imageBlockchainMatch,
                 !.activeTab = portal.activeTab,
                 !.latest = r,
                 !.run = [portal.run EXCEPT ![r] =
                            [IdleHandler EXCEPT
                               !.pc = "verify",
                               !.searchQuery = searchQuery,
                               !.bytes32Hash =
                                   PortalDigest[TrimQuery(searchQuery)],
                               !.started = <<"verifyContent">>]]]
    /\ UNCHANGED <<chain, blockTimestamp, result, backend, lookup, search,
                   pages>>

\* handleSearch that runs the regular search of the text mode whether or not
\* the exact lookup hit
PortalVerifyReturns_SearchOnHit(r, rpcFails) ==
    /\ portal.run[r].pc = "verify"
    /\ LET exactMatch ==
               ClientVerifyContent(portal.run[r].bytes32Hash, rpcFails)
           match == [found |-> TRUE,
                     contentHash |-> portal.run[r].bytes32Hash,
                     publisher |-> exactMatch.publisher,
                     timestamp |-> exactMatch.timestamp,
                     contentType |-> exactMatch.contentType,
                     ipfsMetadata |-> exactMatch.ipfsMetadata]
       IN portal' =
            IF portal.run[r].verificationMode = "image"
            THEN IF exactMatch.exists
                 THEN [portal EXCEPT
                         !.run[r].pc = "done", !.imageBlockchainMatch = match,
                         !.toast = "This image is VERIFIED on the blockchain!",
                         !.activeTab = "blockchain", !.isSearching = FALSE]
                 ELSE [portal EXCEPT
                         !.run[r].pc = "analyzeNewsImage",
                         !.toast = "Image not found on blockchain. Analyzing with AI...",
                         !.run[r].started = Append(@, "analyzeNewsImage")]
            ELSE IF exactMatch.exists
                 THEN [portal EXCEPT
                         !.run[r].pc = "analyzeNewsContent",
                         !.exactBlockchainMatch = match,
                         !.toast = "Content verified on blockchain! Exact match found.",
                         !.activeTab = "blockchain",
                         !.run[r].started = @ \o <<"searchVerifiedNews",
                                             "analyzeNewsContent">>]
                 ELSE [portal EXCEPT
                         !.run[r].pc = "Promise.all",
                         !.run[r].started = @ \o <<"searchVerifiedNews",
                                             "analyzeNewsContent">>]
    /\ UNCHANGED <<chain, blockTimestamp, result, backend, lookup, search,
                   pages>>

\* await verifyContent(bytes32Hash) returns and handleSearch runs on to its
\* next await, or to its end
PortalVerifyReturns(r, rpcFails) ==
    /\ portal.run[r].pc = "verify"
    /\ LET exactMatch ==
               ClientVerifyContent(portal.run[r].bytes32Hash, rpcFails)
           match == [found |-> TRUE,
                     contentHash |-> portal.run[r].bytes32Hash,
                     publisher |-> exactMatch.publisher,
                     timestamp |-> exactMatch.timestamp,
                     contentType |-> exactMatch.contentType,
                     ipfsMetadata |-> exactMatch.ipfsMetadata]
       IN portal' =
            IF portal.run[r].verificationMode = "image"
            THEN IF exactMatch.exists
                 THEN [portal EXCEPT
                         !.run[r].pc = "done", !.imageBlockchainMatch = match,
                         !.toast = "This image is VERIFIED on the blockchain!",
                         !.activeTab = "blockchain", !.isSearching = FALSE]
                 ELSE [portal EXCEPT
                         !.run[r].pc = "analyzeNewsImage",
                         !.toast = "Image not found on blockchain. Analyzing with AI...",
                         !.run[r].started = Append(@, "analyzeNewsImage")]
            ELSE IF exactMatch.exists
                 THEN [portal EXCEPT
                         !.run[r].pc = "analyzeNewsContent",
                         !.exactBlockchainMatch = match,
                         !.toast = "Content verified on blockchain! Exact match found.",
                         !.activeTab = "blockchain",
                         !.run[r].started = Append(@, "analyzeNewsContent")]
                 ELSE [portal EXCEPT
                         !.run[r].pc = "Promise.all",
                         !.run[r].started = @ \o <<"searchVerifiedNews",
                                             "analyzeNewsContent">>]
    /\ UNCHANGED <<chain, blockTimestamp, result, backend, lookup, search,
                   pages>>

\* the toast that closes an image analysis: manipulation indicators found,
\* else verdict likely-real, else neither
ImageToasts ==
    {"Potential image manipulation detected!",
     "Image analysis complete - content appears authentic",
     "Analysis complete - see results below"}

\* image mode: await analyzeNewsImage(selectedImage) returns (it catches its
\* own errors); with extracted news content the fuzzy search is called,
\* without it handleSearch ends
PortalImageAnalysed(r, newsContent, closing) ==
    /\ portal.run[r].pc = "analyzeNewsImage"
    /\ portal' =
         IF newsContent # ""
         THEN [portal EXCEPT !.run[r].pc = "searchVerifiedNews",
                 !.run[r].result = closing,
                 !.imageAnalysis = closing,
                 !.aiAnalysis = "analysisResult",
                 !.run[r].started = Append(@, "searchVerifiedNews")]
         ELSE [portal EXCEPT !.run[r].pc = "done", !.imageAnalysis = closing,
                 !.aiAnalysis = "analysisResult",
                 !.toast = closing, !.activeTab = "ai",
                 !.isSearching = FALSE]
    /\ UNCHANGED <<chain, blockTimestamp, result, backend, lookup, search,
                   pages>>

\* image mode: await searchVerifiedNews(result.newsContent) returns (it
\* catches its own errors)
PortalImageSearched(r) ==
    /\ portal.run[r].pc = "searchVerifiedNews"
    /\ portal' = [portal EXCEPT !.run[r].pc = "done", !.searchResults = "matches",
                     !.toast = portal.run[r].result, !.activeTab = "ai",
                     !.isSearching = FALSE]
    /\ UNCHANGED <<chain, blockTimestamp, result, backend, lookup, search,
                   pages>>

\* text mode, exact hit: await analyzeNewsContent(searchQuery) returns
PortalHitAnalysed(r) ==
    /\ portal.run[r].pc = "analyzeNewsContent"
    /\ portal' = [portal EXCEPT !.run[r].pc = "done", !.aiAnalysis = "aiResult",
                     !.isSearching = FALSE]
    /\ UNCHANGED <<chain, blockTimestamp, result, backend, lookup, search,
                   pages>>

\* text mode, exact miss: await Promise.all([searchVerifiedNews,
\* analyzeNewsContent]) returns
PortalMissJoined(r, found, unverified) ==
    /\ portal.run[r].pc = "Promise.all"
    /\ portal' =
         [portal EXCEPT
            !.run[r].pc = "done", !.searchResults = "matches",
            !.aiAnalysis = "aiResult", !.isSearching = FALSE,
            !.activeTab = IF found THEN "blockchain"
                          ELSE IF ~unverified THEN "ai" ELSE @,
            !.toast = IF found THEN "Found similar verified article(s)!"
                      ELSE IF ~unverified THEN "AI analysis complete"
                      ELSE "Limited verification data available"]
    /\ UNCHANGED <<chain, blockTimestamp, result, backend, lookup, search,
                   pages>>

\* the Verify button calls handleSearch; it is disabled while isSearching and
\* while the text is blank (text mode) or no image is selected (image mode)
VerifyClick(r, verificationMode, selectedImage, searchQuery, fileReadFails) ==
    /\ ~portal.isSearching
    /\ IF verificationMode = "text" THEN TrimQuery(searchQuery) # ""
                                    ELSE selectedImage
    /\ HandleSearch(r, verificationMode, selectedImage, searchQuery,
                    fileReadFails)

\* handleKeyPress of the text field, which the page shows in text mode:
\* Enter without Shift calls handleSearch, every other key is left to the
\* field
HandleKeyPress(r, key, shiftKey, searchQuery) ==
    /\ key = "Enter" /\ ~shiftKey
    /\ HandleSearch(r, "text", FALSE, searchQuery, FALSE)

\* ---------------------------------------------------------------- blocks
\* the ledger numbers its blocks; each entry of the event log lies in the
\* block that mined its transaction
GenesisBlocks == [number |-> 0, ofEvent |-> <<>>]

\* the block of the transaction of this step: the latest block or a new
\* one; a reverted transaction leaves no entry, the block that mined it is
\* one of those that go by without an entry
MinedInBlock ==
    IF Len(events') > Len(events)
    THEN \E gap \in {0, 1} :
            blocks' = [number |-> blocks.number + gap,
                       ofEvent |-> Append(blocks.ofEvent, blocks.number + gap)]
    ELSE blocks' = blocks

\* ---------------------------------------------------------------- client: getRecentRegistrations
\* latestBlock - 5000
BlockRange == 5000
\* getRecentRegistrations(20)
RecentLimit == 20

\* gap blocks mined with no transaction of this contract; none is modelled
\* once the chain is longer than the range the client looks back
MineBlocks(gap) ==
    /\ blocks.number <= BlockRange
    /\ blocks' = [blocks EXCEPT !.number = @ + gap]
    /\ UNCHANGED <<chain, blockTimestamp, result, backend, lookup, portal,
                   search, recent, call, analysis, cache, dashboard>>

\* contract.queryFilter(filter, fromBlock, toBlock): the entries of the log
\* with that event name in the blocks fromBlock .. toBlock, oldest first
QueryFilter(name, fromBlock, toBlock) ==
    LET upTo[i \in 0..Len(events)] ==
            IF i = 0 THEN <<>>
            ELSE IF /\ events[i].name = name
                    /\ blocks.ofEvent[i] >= fromBlock
                    /\ blocks.ofEvent[i] <= toBlock
                 THEN Append(upTo[i - 1], events[i])
                 ELSE upTo[i - 1]
    IN upTo[Len(events)]

\* the object the client makes of the arguments of a ContentRegistered event
RegistrationOf(event) ==
    [contentHash |-> event.contentHash, publisher |-> event.account,
     timestamp |-> event.timestamp, contentType |-> event.contentType,
     ipfsMetadata |-> event.ipfsMetadata]

\* Array.prototype.reverse and slice(0, limit)
Reverse(seq) == [i \in 1..Len(seq) |-> seq[Len(seq) + 1 - i]]
SliceFromStart(seq, limit) ==
    SubSeq(seq, 1, IF Len(seq) < limit THEN Len(seq) ELSE limit)

\* Math.max(0, latestBlock - 5000)
FromBlock(latestBlock) ==
    IF latestBlock - BlockRange > 0 THEN latestBlock - BlockRange ELSE 0

\* what getRecentRegistrations(limit) answers when its calls are answered
RecentRegistrations(limit) ==
    LET latestBlock == blocks.number
        logs == QueryFilter("ContentRegistered", FromBlock(latestBlock),
                            latestBlock)
    IN SliceFromStart(Reverse([i \in DOMAIN logs |-> RegistrationOf(logs[i])]),
                      limit)

\* reg.contentType === 'article' && reg.ipfsMetadata
IsArticleReg(reg) == reg.contentType = "article" /\ reg.ipfsMetadata # ""

\* registrations: what getRecentRegistrations(20) answered to
\* searchVerifiedNews; articleRegs: the registrations it keeps
IdleRecent ==
    [pc |-> "idle", failed |-> FALSE, registrations |-> <<>>,
     articleRegs |-> <<>>]

\* searchVerifiedNews up to its metadata fetches: getRecentRegistrations(20),
\* which answers [] when one of its two calls of the node fails, and the
\* filter on the category and the pointer
SearchRecentArticles(rpcFails) ==
    /\ LET registrations ==
               IF rpcFails THEN <<>> ELSE RecentRegistrations(RecentLimit)
       IN recent' = [pc |-> "fetch", failed |-> rpcFails,
                     registrations |-> registrations,
                     articleRegs |-> SelectSeq(registrations, IsArticleReg)]
    /\ UNCHANGED <<chain, blockTimestamp, result, backend, lookup, portal,
                   search, blocks, call, analysis, cache, dashboard>>

\* ---------------------------------------------------------------- client: the read operations
\* CONTRACT_ADDRESS is fixed when the module is loaded: the address of the
\* deployment, or '' when none is configured
ContractAddresses == {"", "0xC0DE"}
ReadOps ==
    {"verifyContent", "getContentDetails", "getPublisherContent",
     "getTotalRegistrations", "getPublisherReputation",
     "getRecentRegistrations", "getAllRegisteredContent",
     "searchVerifiedNews"}
\* what fails underneath a call: nothing, or a call of the node
Faults == {"none", "rpc"}

\* fault: what failed underneath the last call; outcome: "returned" with
\* value, or "threw" with the message of the error
IdleCall ==
    [pc |-> "unloaded", CONTRACT_ADDRESS |-> "", op |-> "none",
     fault |-> "none", outcome |-> "none", value |-> <<>>, message |-> ""]

ClientLoad(address) ==
    /\ call.pc = "unloaded"
    /\ call' = [IdleCall EXCEPT !.pc = "idle", !.CONTRACT_ADDRESS = address]
    /\ UNCHANGED <<chain, blockTimestamp, result, backend, lookup, portal,
                   search, blocks, recent, analysis, cache, dashboard>>

\* getContentDetails of a missing record, and when its call failed
NoDetails(contentHash) ==
    [exists |-> FALSE, contentHash |-> contentHash, publisher |-> "",
     timestamp |-> 0, contentType |-> "", ipfsMetadata |-> ""]

\* getContentDetails: the fields of the struct whatever exists says
ContentDetails(contentHash) ==
    LET content == contentRegistry[contentHash] IN
    [exists |-> content.exists, contentHash |-> contentHash,
     publisher |-> content.publisher, timestamp |-> content.timestamp,
     contentType |-> content.contentType,
     ipfsMetadata |-> content.ipfsMetadata]

\* getAllRegisteredContent: the ContentRegistered events from block 0,
\* sorted by timestamp, newest first (the sort is stable)
RECURSIVE InsertByTimestamp(_, _)
InsertByTimestamp(sorted, reg) ==
    IF sorted = <<>> THEN <<reg>>
    ELSE IF Head(sorted).timestamp >= reg.timestamp
         THEN <<Head(sorted)>> \o InsertByTimestamp(Tail(sorted), reg)
         ELSE <<reg>> \o sorted
RECURSIVE SortByTimestamp(_)
SortByTimestamp(content) ==
    IF content = <<>> THEN <<>>
    ELSE InsertByTimestamp(SortByTimestamp(SubSeq(content, 1, Len(content) - 1)),
                           content[Len(content)])
\* getAllRegisteredContent without its sort: the events as they were logged
AllRegisteredContent_LogOrder ==
    LET logs == QueryFilter("ContentRegistered", 0, blocks.number)
    IN [i \in DOMAIN logs |-> RegistrationOf(logs[i])]
AllRegisteredContent ==
    LET logs == QueryFilter("ContentRegistered", 0, blocks.number)
    IN SortByTimestamp([i \in DOMAIN logs |-> RegistrationOf(logs[i])])

\* the metadata behind the pointers of the registrations
TitleAt == [m \in {"QmA", "QmB"} |-> IF m = "QmA" THEN "Find New" ELSE ""]

\* searchVerifiedNews when every call is answered and every title is a string
SearchFound(searchQuery) ==
    LET searchLower == trim(toLowerCase(searchQuery))
        articleRegs == SelectSeq(RecentRegistrations(RecentLimit), IsArticleReg)
        scored == [k \in DOMAIN articleRegs |->
                     [title |-> TitleAt[articleRegs[k].ipfsMetadata],
                      similarity |->
                          Similarity(TitleAt[articleRegs[k].ipfsMetadata],
                                     searchLower)]]
        matches == SelectSeq(scored,
                             LAMBDA m : m.title # "" /\ m.similarity >= 50)
        sorted == SortMatches(matches)
    IN [found |-> Len(sorted) > 0, matches |-> SliceFromStart(sorted, 10)]

\* what each read operation answers when the contract is not configured (for
\* those that test it) and when its call of the node fails
EmptyAnswer(op, contentHash) ==
    CASE op = "verifyContent" -> NotFound
      [] op = "getContentDetails" -> NoDetails(contentHash)
      [] op = "getPublisherContent" -> <<>>
      [] op = "getTotalRegistrations" -> 0
      [] op = "getPublisherReputation" -> NoReputation
      [] op = "getRecentRegistrations" -> <<>>
      [] op = "getAllRegisteredContent" -> <<>>
      [] op = "searchVerifiedNews" -> [found |-> FALSE, matches |-> <<>>]

\* what each read operation answers when every call is answered
Answer(op, contentHash, publisherAddress) ==
    CASE op = "verifyContent" -> ClientVerifyContent(contentHash, FALSE)
      [] op = "getContentDetails" -> ContentDetails(contentHash)
      [] op = "getPublisherContent" -> publisherContent[publisherAddress]
      [] op = "getTotalRegistrations" -> totalRegistrations
      [] op = "getPublisherReputation" -> publisherReputations[publisherAddress]
      [] op = "getRecentRegistrations" -> RecentRegistrations(RecentLimit)
      [] op = "getAllRegisteredContent" -> AllRegisteredContent
      [] op = "searchVerifiedNews" -> SearchFound("find")

\* one read operation of the client, from its call to its return or throw;
\* answered: the number of calls of the getter getPublisherContent had
\* answered when one failed
ClientRead(op, contentHash, publisherAddress, fault, answered) ==
    /\ call.pc = "idle"
    /\ call' =
         [call EXCEPT
            !.op = op, !.fault = fault,
            !.outcome =
                IF op = "verifyContent" /\ call.CONTRACT_ADDRESS = ""
                THEN "threw" ELSE "returned",
            !.message =
                IF op = "verifyContent" /\ call.CONTRACT_ADDRESS = ""
                THEN "Contract not available" ELSE "",
            !.value =
                IF op = "verifyContent" /\ call.CONTRACT_ADDRESS = ""
                THEN <<>>
                ELSE IF call.CONTRACT_ADDRESS = ""
                THEN EmptyAnswer(op, contentHash)
                ELSE IF fault # "none" /\ op = "getPublisherContent"
                THEN SliceFromStart(publisherContent[publisherAddress],
                                    answered)
                ELSE IF fault # "none"
                THEN EmptyAnswer(op, contentHash)
                ELSE Answer(op, contentHash, publisherAddress)]
    /\ UNCHANGED <<chain, blockTimestamp, result, backend, lookup, portal,
                   search, blocks, recent, analysis, cache, dashboard>>

\* ---------------------------------------------------------------- client: analyzeNewsContent
\* the external services analyzeNewsContent calls in parallel
Oracles == {"gemini", "perplexity", "google"}
\* analyzeWithGemini and analyzeWithPerplexity arm an AbortController timer
\* of 15000 ms before their fetch; checkGoogleFactCheck calls fetch bare
TimedOracles == {"gemini", "perplexity"}
\* GEMINI_API_KEY and PERPLEXITY_API_KEY are '' when not configured; the
\* fact-check endpoint is called without a key
KeyedOracles == {"gemini", "perplexity"}

\* what analyzeWithGemini returns: null, or the fields it picked from the
\* JSON of the answer (parsed.redFlags || [] is whatever truthy value the
\* answer carried, an array or not)
NullGemini ==
    [null |-> TRUE, analysis |-> "", redFlags |-> {}, greenFlags |-> {},
     credibilityScore |-> 0, typeofFlags |-> "array"]
GeminiResults ==
    {[null |-> FALSE, analysis |-> a, redFlags |-> r, greenFlags |-> {},
      credibilityScore |-> s, typeofFlags |-> "array"] :
        a \in {"", "analysis"},
        r \in {{}, {"Uses emotionally charged words"}},
        s \in {50, 80}}
    \cup {[null |-> FALSE, analysis |-> "analysis", redFlags |-> {},
           greenFlags |-> {}, credibilityScore |-> 80,
           typeofFlags |-> "number"]}

\* what analyzeWithPerplexity returns
NullPerplexity ==
    [null |-> TRUE, insights |-> "", relatedArticles |-> <<>>,
     verificationStatus |-> "unverified"]
PerplexityResults ==
    {[null |-> FALSE, insights |-> i, relatedArticles |-> a,
      verificationStatus |-> v] :
        i \in {"", "insights"},
        a \in {<<>>, <<"a1">>, <<"a1", "a2", "a3">>},
        v \in {"verified", "disputed", "unverified"}}

\* what checkGoogleFactCheck returns: the ratings of the claims found
GoogleResults ==
    {<<>>, <<[rating |-> "False"]>>, <<[rating |-> "Mostly true"]>>}

\* what analyzeContentPatterns finds in the content
PatternAnalyses ==
    {[redFlags |-> {}, greenFlags |-> {}],
     [redFlags |-> {"Uses emotionally charged words",
                    "Contains clickbait phrases"},
      greenFlags |-> {"Mentions institutions"}]}

\* const results: AIAnalysisResult, as analyzeNewsContent initialises it
InitialResults ==
    [overallScore |-> 50, confidence |-> "low", verdict |-> "unverified",
     factChecks |-> <<>>, redFlags |-> {}, greenFlags |-> {},
     explanation |-> "", aiAnalysis |-> "", perplexityInsights |-> "",
     relatedArticles |-> <<>>]

\* Math.max(0, Math.min(100, score))
Clamp(score) == IF score < 0 THEN 0 ELSE IF score > 100 THEN 100 ELSE score

\* ratings.some(r => r.includes(a) || r.includes(b) || r.includes(c))
SomeRating(factChecks, words) ==
    \E i \in DOMAIN factChecks, w \in words :
        includes(toLowerCase(factChecks[i].rating), w)

\* the number of data points calculateFinalScore counts
DataPoints(results) ==
    (IF results.aiAnalysis # "" THEN 1 ELSE 0)
    + (IF results.perplexityInsights # "" THEN 1 ELSE 0)
    + (IF Len(results.factChecks) > 0 THEN 1 ELSE 0)
    + (IF Len(results.relatedArticles) > 0 THEN 1 ELSE 0)

\* calculateFinalScore(results)
calculateFinalScore(results) ==
    LET checked ==
            results.overallScore
            - (IF SomeRating(results.factChecks,
                             {"false", "fake", "misleading"})
               THEN 30 ELSE 0)
            + (IF SomeRating(results.factChecks,
                             {"true", "correct", "accurate"})
               THEN 20 ELSE 0)
        flagged == checked - Cardinality(results.redFlags) * 5
                           + Cardinality(results.greenFlags) * 3
        score == Clamp(IF Len(results.relatedArticles) >= 3
                       THEN flagged + 10 ELSE flagged)
        dataPoints == DataPoints(results)
    IN [score |-> score,
        confidence |-> IF dataPoints >= 3 THEN "high"
                       ELSE IF dataPoints >= 2 THEN "medium" ELSE "low",
        verdict |-> IF score >= 70 THEN "likely-real"
                    ELSE IF score <= 30 THEN "likely-fake"
                    ELSE IF dataPoints >= 2 THEN "mixed" ELSE "unverified"]

\* the results after the Gemini and the Perplexity answers are merged
Merged(geminiResult, perplexityResult, googleFactChecks, patternAnalysis) ==
    LET g == IF geminiResult.null THEN InitialResults
             ELSE [InitialResults EXCEPT
                     !.aiAnalysis = geminiResult.analysis,
                     !.redFlags = geminiResult.redFlags,
                     !.greenFlags = geminiResult.greenFlags,
                     !.overallScore = geminiResult.credibilityScore]
        p == IF perplexityResult.null THEN g
             ELSE [g EXCEPT
                     !.perplexityInsights = perplexityResult.insights,
                     !.relatedArticles = perplexityResult.relatedArticles,
                     !.overallScore =
                         IF perplexityResult.verificationStatus = "verified"
                         THEN Clamp(@ + 20)
                         ELSE IF perplexityResult.verificationStatus = "disputed"
                         THEN Clamp(@ - 20) ELSE @]
    IN [p EXCEPT !.factChecks = googleFactChecks,
                 !.redFlags = @ \cup patternAnalysis.redFlags,
                 !.greenFlags = @ \cup patternAnalysis.greenFlags]

\* what analyzeNewsContent returns for the answers of its four parallel
\* checks: the scored merge, or, when results.redFlags.push(...) throws on
\* flags that are no array, the results of the catch block
AnalysisResults(geminiResult, perplexityResult, googleFactChecks, patternAnalysis) ==
    IF ~geminiResult.null /\ geminiResult.typeofFlags # "array"
    THEN [InitialResults EXCEPT
            !.aiAnalysis = geminiResult.analysis,
            !.redFlags = patternAnalysis.redFlags,
            !.greenFlags = patternAnalysis.greenFlags,
            !.explanation = "AI services unavailable. Analysis based on content patterns only."]
    ELSE LET merged == Merged(geminiResult, perplexityResult,
                              googleFactChecks, patternAnalysis)
             finalScore == calculateFinalScore(merged)
         IN [merged EXCEPT !.overallScore = finalScore.score,
                           !.confidence = finalScore.confidence,
                           !.verdict = finalScore.verdict,
                           !.explanation = "generateExplanation"]

\* phase of each oracle's call: "none", "fetch" (request sent, no response
\* yet), "body" (response received, timer cleared, body not yet read),
\* "settled"; sent: requests sent; outcome: "returned" or "threw"
IdleAnalysis ==
    [pc |-> "idle",
     phase |-> [o \in Oracles |-> "none"],
     ok |-> [o \in Oracles |-> TRUE],
     sent |-> [o \in Oracles |-> 0],
     geminiResult |-> NullGemini, perplexityResult |-> NullPerplexity,
     googleFactChecks |-> <<>>,
     patternAnalysis |-> [redFlags |-> {}, greenFlags |-> {}],
     outcome |-> "none", results |-> InitialResults]

\* analyzeNewsContent(content) up to its await of Promise.all: each check
\* runs to its first await, a keyed one without key returns null at once
AnalyzeNewsContent(patternAnalysis, keys) ==
    /\ analysis.pc \in {"idle", "returned"}
    /\ analysis' =
         [IdleAnalysis EXCEPT
            !.pc = "Promise.all",
            !.phase = [o \in Oracles |->
                         IF o \in KeyedOracles \ keys THEN "settled"
                         ELSE "fetch"],
            !.sent = [o \in Oracles |->
                        IF o \in KeyedOracles \ keys THEN 0 ELSE 1],
            !.patternAnalysis = patternAnalysis]
    /\ UNCHANGED <<chain, blockTimestamp, result, backend, lookup, portal,
                   search, blocks, recent, call, cache, dashboard>>

\* what a check returns when its call failed
NoData(o, a) ==
    [a EXCEPT !.phase[o] = "settled",
              !.geminiResult = IF o = "gemini" THEN NullGemini ELSE @,
              !.perplexityResult =
                  IF o = "perplexity" THEN NullPerplexity ELSE @,
              !.googleFactChecks = IF o = "google" THEN <<>> ELSE @]

\* await fetch(...) resolves with the response: the timer is cleared;
\* checkGoogleFactCheck returns [] at once when the status is not ok, the
\* other two first read the error text
OracleResponds(o, ok) ==
    /\ analysis.phase[o] = "fetch"
    /\ analysis' =
         IF o = "google" /\ ~ok THEN NoData(o, analysis)
         ELSE [analysis EXCEPT !.phase[o] = "body", !.ok[o] = ok]
    /\ UNCHANGED <<chain, blockTimestamp, result, backend, lookup, portal,
                   search, blocks, recent, call, cache, dashboard>>

\* await response.json() (or response.text() of an error) resolves and the
\* check returns what it made of the body; an error status is thrown and
\* caught
OracleBodyRead(o, geminiResult, perplexityResult, googleFactChecks) ==
    /\ analysis.phase[o] = "body"
    /\ analysis' =
         IF ~analysis.ok[o] THEN NoData(o, analysis)
         ELSE [analysis EXCEPT
                 !.phase[o] = "settled",
                 !.geminiResult = IF o = "gemini" THEN geminiResult ELSE @,
                 !.perplexityResult =
                     IF o = "perplexity" THEN perplexityResult ELSE @,
                 !.googleFactChecks =
                     IF o = "google" THEN googleFactChecks ELSE @]
    /\ UNCHANGED <<chain, blockTimestamp, result, backend, lookup, portal,
                   search, blocks, recent, call, cache, dashboard>>

\* the fetch or the read of the body rejects (network error): caught, the
\* check returns null or []
OracleFails(o) ==
    /\ analysis.phase[o] \in {"fetch", "body"}
    /\ analysis' = NoData(o, analysis)
    /\ UNCHANGED <<chain, blockTimestamp, result, backend, lookup, portal,
                   search, blocks, recent, call, cache, dashboard>>

\* the timer fires after 15000 ms and aborts the fetch: caught, the check
\* returns null
OracleTimeout(o) ==
    /\ o \in TimedOracles
    /\ analysis.phase[o] = "fetch"
    /\ analysis' = NoData(o, analysis)
    /\ UNCHANGED <<chain, blockTimestamp, result, backend, lookup, portal,
                   search, blocks, recent, call, cache, dashboard>>

\* await Promise.all([...]) resolves once every check has returned, and
\* analyzeNewsContent runs to its return
AnalysisReturns ==
    /\ analysis.pc = "Promise.all"
    /\ \A o \in Oracles : analysis.phase[o] = "settled"
    /\ analysis' =
         [analysis EXCEPT
            !.pc = "returned", !.outcome = "returned",
            !.results = AnalysisResults(analysis.geminiResult,
                                        analysis.perplexityResult,
                                        analysis.googleFactChecks,
                                        analysis.patternAnalysis)]
    /\ UNCHANGED <<chain, blockTimestamp, result, backend, lookup, portal,
                   search, blocks, recent, call, cache, dashboard>>

\* ---------------------------------------------------------------- client: fetchIPFSWithCache
\* CACHE_TTL = 5 * 60 * 1000 ms, in minutes, the unit of the clock
CACHE_TTL == 5
\* the metadata locators asked for, and what the gateway can serve for one
Locators == {"QmA", "QmB"}
MetadataVersions == {"v1", "v2"}
\* the calls of fetchIPFSWithCache that can be under way at once
\* (searchVerifiedNews maps it over the registrations inside Promise.all)
CacheCalls == {1, 2}

\* ipfsCache.get(ipfsHash) of a locator never stored
NoEntry == [stored |-> FALSE, data |-> "null", timestamp |-> 0]
\* a call: external says whether it sent a request to the gateway
IdleFetch ==
    [pc |-> "idle", ipfsHash |-> "", external |-> FALSE, value |-> "null"]

\* now: Date.now(); ipfsCache: the Map of the module
IdleCache ==
    [now |-> 0,
     ipfsCache |-> [h \in Locators |-> NoEntry],
     call |-> [c \in CacheCalls |-> IdleFetch]]

\* a minute goes by
Tick ==
    /\ cache.now < MaxClock
    /\ cache' = [cache EXCEPT !.now = @ + 1]
    /\ UNCHANGED <<chain, blockTimestamp, result, backend, lookup, portal,
                   search, blocks, recent, call, analysis, dashboard>>

\* fetchIPFSWithCache(ipfsHash) up to its return of the cached data or to
\* its await of fetch
FetchIPFSWithCache_UpToTTL(c, ipfsHash) ==
    /\ cache.call[c].pc \in {"idle", "returned"}
    /\ LET cached == cache.ipfsCache[ipfsHash] IN
       cache' =
         IF cached.stored /\ cache.now - cached.timestamp <= CACHE_TTL
         THEN [cache EXCEPT !.call[c] =
                 [pc |-> "returned", ipfsHash |-> ipfsHash,
                  external |-> FALSE, value |-> cached.data]]
         ELSE [cache EXCEPT !.call[c] =
                 [pc |-> "fetch", ipfsHash |-> ipfsHash,
                  external |-> TRUE, value |-> "null"]]
    /\ UNCHANGED <<chain, blockTimestamp, result, backend, lookup, portal,
                   search, blocks, recent, call, analysis, dashboard>>
FetchIPFSWithCache(c, ipfsHash) ==
    /\ cache.call[c].pc \in {"idle", "returned"}
    /\ LET cached == cache.ipfsCache[ipfsHash] IN
       cache' =
         IF cached.stored /\ cache.now - cached.timestamp < CACHE_TTL
         THEN [cache EXCEPT !.call[c] =
                 [pc |-> "returned", ipfsHash |-> ipfsHash,
                  external |-> FALSE, value |-> cached.data]]
         ELSE [cache EXCEPT !.call[c] =
                 [pc |-> "fetch", ipfsHash |-> ipfsHash,
                  external |-> TRUE, value |-> "null"]]
    /\ UNCHANGED <<chain, blockTimestamp, result, backend, lookup, portal,
                   search, blocks, recent, call, analysis, dashboard>>

\* the fetch of the gateway ends: with a response that is ok and whose body
\* parses (the data is stored with the time of now and returned), or with
\* a status that is not ok, an abort by the 3000 ms timer, a network error
\* or a body that does not parse (null is returned, the Map is not touched)
FetchCompletes(c, ok, data) ==
    /\ cache.call[c].pc = "fetch"
    /\ cache' =
         IF ok
         THEN [cache EXCEPT
                 !.ipfsCache[cache.call[c].ipfsHash] =
                     [stored |-> TRUE, data |-> data, timestamp |-> cache.now],
                 !.call[c].pc = "returned", !.call[c].value = data]
         ELSE [cache EXCEPT !.call[c].pc = "returned",
                            !.call[c].value = "null"]
    /\ UNCHANGED <<chain, blockTimestamp, result, backend, lookup, portal,
                   search, blocks, recent, call, analysis, dashboard>>

\* ---------------------------------------------------------------- PublisherDashboard.handleRegister
\* what the publisher can have typed into the content field
DashboardTexts == {"", "vote today", "vote today "}
\* hexToBytes32(generateContentHash(contentInput)): SHA-256 as a table over
\* the texts of the dashboard, one digest per text; it is the function the
\* portal hashes with
DashboardDigest ==
    [t \in {"vote today", "vote today "} |->
        IF t = "vote today" THEN PortalDigest["vote today"] ELSE 1]

\* the state of the component and the position of its handleRegister call;
\* walletAddress "" is null; registered: the texts whose registration
\* succeeded
IdleDashboard ==
    [pc |-> "idle", walletAddress |-> "", isRegistering |-> FALSE,
     contentInput |-> "", contentType |-> "article", bytes32Hash |-> 0,
     ipfsHash |-> "", toast |-> "", registered |-> {}]

\* handleConnect: connectWallet() answers with the account of the wallet, or
\* throws (address ""), which is caught and shown
HandleConnect(address) ==
    /\ dashboard.pc = "idle"
    /\ dashboard' =
         IF address = ""
         THEN [dashboard EXCEPT !.toast = "Failed to connect wallet"]
         ELSE [dashboard EXCEPT !.walletAddress = address,
                                !.toast = "Wallet connected!"]
    /\ UNCHANGED <<chain, blockTimestamp, result, backend, lookup, portal,
                   search, blocks, recent, call, analysis, cache>>

\* handleRegister up to its await of the upload
HandleRegister(contentInput, contentType, selectedFile) ==
    /\ dashboard.pc = "idle"
    /\ dashboard' =
         IF dashboard.walletAddress = ""
         THEN [dashboard EXCEPT !.toast = "Please connect your wallet first"]
         ELSE IF contentInput = "" /\ ~selectedFile
         THEN [dashboard EXCEPT
                 !.toast = "Please enter content or upload a file"]
         ELSE [dashboard EXCEPT
                 !.pc = "upload", !.isRegistering = TRUE,
                 !.contentInput = contentInput,
                 !.contentType = contentType,
                 !.bytes32Hash = IF selectedFile THEN PortalDigest["image"]
                                 ELSE DashboardDigest[contentInput],
                 !.toast = "Uploading to IPFS..."]
    /\ UNCHANGED <<chain, blockTimestamp, result, backend, lookup, portal,
                   search, blocks, recent, call, analysis, cache>>

\* await uploadJSONToIPFS(metadata) returns the pointer, or throws (ipfsHash
\* ""): handleRegister catches and ends
DashboardUploaded(ipfsHash) ==
    /\ dashboard.pc = "upload"
    /\ dashboard' =
         IF ipfsHash = ""
         THEN [dashboard EXCEPT
                 !.pc = "idle", !.isRegistering = FALSE,
                 !.toast = "Registration failed: Failed to upload JSON to IPFS"]
         ELSE [dashboard EXCEPT
                 !.pc = "register", !.ipfsHash = ipfsHash,
                 !.toast = "Registering on blockchain... Please confirm transaction"]
    /\ UNCHANGED <<chain, blockTimestamp, result, backend, lookup, portal,
                   search, blocks, recent, call, analysis, cache>>

\* await registerContent(bytes32Hash, contentType, ipfsHash): the wallet
\* sends the transaction once the publisher confirmed it; a rejection and a
\* revert are thrown, caught and shown
DashboardRegister(confirmed) ==
    /\ dashboard.pc = "register"
    /\ IF confirmed
       THEN /\ registerContent(dashboard.walletAddress, dashboard.bytes32Hash,
                               dashboard.contentType, dashboard.ipfsHash)
            /\ dashboard' =
                 IF result'.ok
                 THEN [dashboard EXCEPT
                         !.pc = "idle", !.isRegistering = FALSE,
                         !.contentInput = "",
                         !.registered = @ \cup {dashboard.contentInput},
                         !.toast = "Content registered successfully!"]
                 ELSE [dashboard EXCEPT
                         !.pc = "idle", !.isRegistering = FALSE,
                         !.toast = "Registration failed: " \o result'.error]
       ELSE /\ dashboard' =
                 [dashboard EXCEPT
                    !.pc = "idle", !.isRegistering = FALSE,
                    !.toast = "Registration failed: user rejected action"]
            /\ UNCHANGED <<chain, blockTimestamp, result>>
    /\ UNCHANGED <<backend, lookup, portal, search, blocks, recent, call,
                   analysis, cache>>


\* ---------------------------------------------------------------- specifications
\* state right after the constructor ran, sent by Deployer
Init ==
    /\ contentRegistry = [h \in Hashes |-> NoContent]
    /\ publisherContent = [a \in Addresses |-> <<>>]
    /\ publisherReputations = [a \in Addresses |-> NoReputation]
    /\ totalRegistrations = 0
    /\ owner = Deployer
    /\ paused = FALSE
    /\ events = <<>>
    /\ blockTimestamp = 1
    /\ result = NoResult
    /\ registeredHashes = {}
    /\ run = [r \in Runs |-> IdleRun]
    /\ lookup = IdleLookup
    /\ portal = IdlePortal
    /\ search = IdleSearch
    /\ blocks = GenesisBlocks
    /\ recent = IdleRecent
    /\ call = IdleCall
    /\ analysis = IdleAnalysis
    /\ cache = IdleCache
    /\ dashboard = IdleDashboard

\* the state-changing functions of the contract called by hand
Next ==
    \/ \E s \in Users, h \in Hashes, in \in RegisterInputs :
          registerContent(s, h, in[1], in[2]) /\ UNCHANGED offchain
    \/ \E s \in Users, h \in Hashes : verifyContent(s, h) /\ UNCHANGED offchain
    \/ \E s \in Users : pause(s) /\ UNCHANGED offchain
    \/ \E s \in Users : unpause(s) /\ UNCHANGED offchain

Spec == Init /\ [][Next]_vars

\* the view functions read between well-formed transactions
NextReads ==
    \/ \E s \in Users, h \in Hashes :
          registerContent(s, h, "article", "QmA") /\ UNCHANGED offchain
    \/ \E s \in Users, h \in Hashes : verifyContent(s, h) /\ UNCHANGED offchain
    \/ \E p \in Users : getPublisherContent(p) /\ UNCHANGED offchain
    \/ \E p \in Users : getPublisherReputation(p) /\ UNCHANGED offchain
    \/ getTotalRegistrations /\ UNCHANGED offchain
    \/ \E h \in Hashes : getContentDetails(h) /\ UNCHANGED offchain
    \/ pause(owner) /\ UNCHANGED offchain
    \/ unpause(owner) /\ UNCHANGED offchain

SpecReads == Init /\ [][NextReads]_vars

\* the backend's overlapping ingestion runs next to a publisher who registers
\* by hand
NextBackend ==
    \/ \E r \in Runs, a \in Articles, f \in BOOLEAN : BackendCheck(r, a, f)
    \/ \E r \in Runs, m \in UploadResults : BackendUpload(r, m)
    \/ \E r \in Runs : BackendRegister(r)
    \/ \E h \in Hashes :
          registerContent("alice", h, "article", "QmB")
             /\ UNCHANGED offchain

SpecBackend == Init /\ [][NextBackend]_vars

\* the ingestion runs of a service that is restarted now and then
NextIngestion ==
    \/ \E r \in Runs, a \in Articles, f \in BOOLEAN : BackendCheck(r, a, f)
    \/ \E r \in Runs, m \in UploadResults : BackendUpload(r, m)
    \/ \E r \in Runs : BackendRegister(r)
    \/ \E r \in Runs : BackendWaitFails(r)
    \/ BackendRestart

SpecIngestion == Init /\ [][NextIngestion]_vars

\* the transactions of the contract as they are mined, and a page of the
\* client replaying the ContentRegistered events
NextLog ==
    \/ \E h \in Hashes,
          in \in {<<"alice", "article", "QmA">>, <<Deployer, "image", "">>} :
          /\ registerContent(in[1], h, in[2], in[3])
          /\ MinedInBlock
          /\ UNCHANGED <<backend, lookup, portal, search, recent, call,
                         analysis, cache, dashboard>>
    \/ \E h \in Hashes :
          /\ verifyContent("alice", h)
          /\ MinedInBlock
          /\ UNCHANGED <<backend, lookup, portal, search, recent, call,
                         analysis, cache, dashboard>>
    \/ /\ pause(Deployer)
       /\ MinedInBlock
       /\ UNCHANGED <<backend, lookup, portal, search, recent, call,
                      analysis, cache, dashboard>>
    \/ ClientLoad("0xC0DE")
    \/ \E fault \in Faults :
          ClientRead("getAllRegisteredContent", 0, Deployer, fault, 0)

SpecLog == Init /\ [][NextLog]_vars

\* a visitor of the verification page using the button and the Enter key
\* while calls of handleSearch are awaiting their answers
NextKeys ==
    \/ registerContent(Deployer, 1, "article", "QmA") /\ UNCHANGED offchain
    \/ \E r \in PortalRuns, m \in {"text", "image"},
          q \in {"flood in town", "vote today "} :
          VerifyClick(r, m, m = "image", q, FALSE)
    \/ \E r \in PortalRuns, key \in {"Enter", "a"}, shiftKey \in BOOLEAN,
          q \in PortalQueries : HandleKeyPress(r, key, shiftKey, q)
    \/ \E r \in PortalRuns, f \in BOOLEAN : PortalVerifyReturns(r, f)
    \/ \E r \in PortalRuns, c \in {"", "headline"}, t \in ImageToasts :
          PortalImageAnalysed(r, c, t)
    \/ \E r \in PortalRuns : PortalImageSearched(r)
    \/ \E r \in PortalRuns : PortalHitAnalysed(r)
    \/ \E r \in PortalRuns, found \in BOOLEAN, unverified \in BOOLEAN :
          PortalMissJoined(r, found, unverified)

SpecKeys == Init /\ [][NextKeys]_vars

\* a publisher registering texts in the dashboard and a visitor verifying
\* the same texts in the portal, every call of the node answered
NextRoundTrip ==
    \/ \E address \in {"", "alice"} : HandleConnect(address)
    \/ \E t \in DashboardTexts : HandleRegister(t, "article", FALSE)
    \/ \E m \in {"", "QmA"} : DashboardUploaded(m)
    \/ \E confirmed \in BOOLEAN : DashboardRegister(confirmed)
    \/ \E q \in DashboardTexts : HandleSearch(1, "text", FALSE, q, FALSE)
    \/ PortalVerifyReturns(1, FALSE)
    \/ PortalHitAnalysed(1)
    \/ \E found \in BOOLEAN, unverified \in BOOLEAN :
          PortalMissJoined(1, found, unverified)

SpecRoundTrip == Init /\ [][NextRoundTrip]_vars

\* the client enumerating a publisher's index while publishers register, and
\* the contract's own getPublisherContent view
NextClient ==
    \/ \E s \in Users, h \in Hashes :
          registerContent(s, h, "article", "QmA") /\ UNCHANGED offchain
    \/ \E p \in Users : getPublisherContent(p) /\ UNCHANGED offchain
    \/ \E p \in Users : ClientGetPublisherContent(p)
    \/ \E f \in BOOLEAN : ClientReadIndex(f)

SpecClient == Init /\ [][NextClient]_vars

\* a visitor of the verification page searching while publishers register
NextPortal ==
    \/ \E s \in Users, h \in Hashes :
          registerContent(s, h, "article", "QmA") /\ UNCHANGED offchain
    \/ \E m \in {"text", "image"}, img \in BOOLEAN, q \in PortalQueries,
          f \in BOOLEAN : HandleSearch(1, m, img, q, f)
    \/ \E f \in BOOLEAN : PortalVerifyReturns(1, f)
    \/ \E c \in {"", "headline"}, t \in ImageToasts :
          PortalImageAnalysed(1, c, t)
    \/ PortalImageSearched(1)
    \/ PortalHitAnalysed(1)
    \/ \E found \in BOOLEAN, unverified \in BOOLEAN :
          PortalMissJoined(1, found, unverified)

SpecPortal == Init /\ [][NextPortal]_vars

\* publishers of articles and images, visitors verifying, and a visitor
\* searching the recent registrations, as blocks go by
NextWindow ==
    \/ \E h \in Hashes \ {0}, t \in {"article", "image"} :
          /\ registerContent(Deployer, h, t, "QmA")
          /\ MinedInBlock
          /\ UNCHANGED <<backend, lookup, portal, search, recent, call,
                         analysis, cache, dashboard>>
    \/ /\ verifyContent("alice", 1)
       /\ MinedInBlock
          /\ UNCHANGED <<backend, lookup, portal, search, recent, call,
                         analysis, cache, dashboard>>
    \/ MineBlocks(BlockRange)
    \/ \E rpcFails \in BOOLEAN : SearchRecentArticles(rpcFails)

SpecWindow == Init /\ [][NextWindow]_vars

\* a page of the client reading the registry while a publisher registers
NextCalls ==
    \/ \E h \in Hashes \ {0}, in \in {<<"article", "QmA">>, <<"image", "QmB">>} :
          /\ registerContent(Deployer, h, in[1], in[2])
          /\ MinedInBlock
          /\ UNCHANGED <<backend, lookup, portal, search, recent, call,
                         analysis, cache, dashboard>>
    \/ \E address \in ContractAddresses : ClientLoad(address)
    \/ \E op \in ReadOps, h \in Hashes, p \in Users, fault \in Faults,
          answered \in {0, 1} :
          ClientRead(op, h, p, fault, answered)

SpecCalls == Init /\ [][NextCalls]_vars

\* calls of analyzeNewsContent, one after the other
NextAnalysis ==
    \/ \E patternAnalysis \in PatternAnalyses, keys \in SUBSET KeyedOracles :
          AnalyzeNewsContent(patternAnalysis, keys)
    \/ \E o \in Oracles, ok \in BOOLEAN : OracleResponds(o, ok)
    \/ \E g \in GeminiResults \cup {NullGemini} :
          OracleBodyRead("gemini", g, NullPerplexity, <<>>)
    \/ \E p \in PerplexityResults \cup {NullPerplexity} :
          OracleBodyRead("perplexity", NullGemini, p, <<>>)
    \/ \E f \in GoogleResults :
          OracleBodyRead("google", NullGemini, NullPerplexity, f)
    \/ \E o \in Oracles : OracleFails(o)
    \/ \E o \in Oracles : OracleTimeout(o)
    \/ AnalysisReturns

SpecAnalysis == Init /\ [][NextAnalysis]_vars

\* one verification of the page from the click to its end: handleSearch
\* awaits the analyzeNewsContent it called
VerificationStarts ==
    /\ portal.run[1].pc = "idle"
    /\ \E m \in {"text", "image"}, q \in {"flood in town", "vote today "} :
          HandleSearch(1, m, m = "image", q, FALSE)
VerificationAnalyses ==
    /\ portal.run[1].pc \in {"analyzeNewsContent", "Promise.all"}
    /\ analysis.pc = "idle"
    /\ \E patternAnalysis \in PatternAnalyses, keys \in SUBSET KeyedOracles :
          AnalyzeNewsContent(patternAnalysis, keys)
VerificationHitAnalysed ==
    analysis.pc = "returned" /\ PortalHitAnalysed(1)
VerificationMissJoined ==
    /\ analysis.pc = "returned"
    /\ \E found \in BOOLEAN :
          PortalMissJoined(1, found, analysis.results.verdict = "unverified")
OracleAnswers ==
    \/ \E o \in Oracles, ok \in BOOLEAN : OracleResponds(o, ok)
    \/ \E g \in {NullGemini} \cup {x \in GeminiResults : x.analysis # ""} :
          OracleBodyRead("gemini", g, NullPerplexity, <<>>)
    \/ \E p \in {x \in PerplexityResults : x.verificationStatus = "verified"} :
          OracleBodyRead("perplexity", NullGemini, p, <<>>)
    \/ \E f \in GoogleResults :
          OracleBodyRead("google", NullGemini, NullPerplexity, f)
    \/ \E o \in Oracles : OracleFails(o)

NextVerification ==
    \/ registerContent(Deployer, 1, "article", "QmA") /\ UNCHANGED offchain
    \/ VerificationStarts
    \/ \E f \in BOOLEAN : PortalVerifyReturns(1, f)
    \/ VerificationAnalyses
    \/ OracleAnswers
    \/ \E o \in Oracles : OracleTimeout(o)
    \/ AnalysisReturns
    \/ VerificationHitAnalysed
    \/ VerificationMissJoined
    \/ \E c \in {"", "headline"}, t \in ImageToasts :
          PortalImageAnalysed(1, c, t)
    \/ PortalImageSearched(1)

\* every step of the program is taken once it can be, and every timer that
\* is armed fires; nothing makes an external service answer
VerificationFairness ==
    /\ WF_vars(\E f \in BOOLEAN : PortalVerifyReturns(1, f))
    /\ WF_vars(VerificationAnalyses)
    /\ \A o \in Oracles : WF_vars(OracleTimeout(o))
    /\ WF_vars(AnalysisReturns)
    /\ WF_vars(VerificationHitAnalysed)
    /\ WF_vars(VerificationMissJoined)
    /\ WF_vars(PortalImageSearched(1))

SpecVerification ==
    Init /\ [][NextVerification]_vars /\ VerificationFairness

\* calls of fetchIPFSWithCache as the minutes go by
NextCache ==
    \/ Tick
    \/ \E c \in CacheCalls, ipfsHash \in Locators :
          FetchIPFSWithCache(c, ipfsHash)
    \/ \E c \in CacheCalls, ok \in BOOLEAN, data \in MetadataVersions :
          FetchCompletes(c, ok, data)

SpecCache == Init /\ [][NextCache]_vars

\* one call of searchVerifiedNews
NextSearch ==
    \/ SearchVerifiedNews
    \/ SearchScoreCandidate
    \/ SearchCatch
    \/ SearchReturn

SpecSearch == Init /\ [][NextSearch]_vars

\* ================================================================ properties
\* positions of the ContentRegistered events of fingerprint h in the log
RegisteredEvents(h) ==
    {i \in DOMAIN events : /\ events[i].name = "ContentRegistered"
                           /\ events[i].contentHash = h}

\* C1 as stated: once a non-zero fingerprint is registered, every later
\* registerContent with it fails with 'Content already registered', whatever
\* the category (read here as: whichever of the three categories the registry
\* accepts), the pointer and the caller.
C1_AlwaysDuplicateFingerprint ==
    [][result'.op = "registerContent" =>
         \A h \in Hashes \ {0}, in \in RegisterInputs, s \in Users :
            (/\ contentRegistry[h].exists
             /\ in[1] \in {"article", "image", "video"}
             /\ registerContent(s, h, in[1], in[2]))
              => (~result'.ok /\ result'.error = "Content already registered")
      ]_vars

\* C1 amended: a non-zero fingerprint is registered at most once; once it is
\* registered every later registerContent with it fails and changes nothing,
\* and the failure is 'Content already registered' whenever the registry is
\* not paused and the category is article, image or video, whatever the
\* pointer (empty included) and the caller; while paused it is 'Contract is
\* paused', and for another category on an active registry 'Invalid content
\* type'.
C1_RegisterAtMostOnce ==
    /\ [](\A h \in Hashes :
             /\ Cardinality(RegisteredEvents(h)) <= 1
             /\ contentRegistry[h].exists <=> RegisteredEvents(h) # {}
             /\ contentRegistry[h].exists => h # 0)
    /\ [][result'.op = "registerContent" =>
           \A h \in Hashes \ {0}, in \in RegisterInputs, s \in Users :
            (contentRegistry[h].exists /\ registerContent(s, h, in[1], in[2]))
                => /\ ~result'.ok
                   /\ chain' = chain
                   /\ (~paused /\ in[1] \in {"article", "image", "video"})
                        => result'.error = "Content already registered"
                   /\ paused => result'.error = "Contract is paused"
                   /\ (~paused /\ in[1] \notin {"article", "image", "video"})
                        => result'.error = "Invalid content type"
        ]_vars

\* C1 witness: a second registerContent of a registered fingerprint was
\* rejected as a duplicate
C1_Witness ==
    /\ result.op = "registerContent"
    /\ ~result.ok
    /\ result.error = "Content already registered"
    /\ \E h \in Hashes \ {0} : contentRegistry[h].exists

\* C2: whatever the interleaving of the registerContent calls of the two
\* ingestion runs and of another publisher, each fingerprint has at most one
\* successful registration, at most one caller saw success for it, and the
\* stored publisher is the sender of the successful call.
C2_OneWinnerPerFingerprint ==
    \A h \in Hashes :
        /\ Cardinality(RegisteredEvents(h)) <= 1
        /\ \A i \in RegisteredEvents(h) :
              /\ contentRegistry[h].exists
              /\ contentRegistry[h].publisher = events[i].account
        /\ \A r1, r2 \in Runs :
              (/\ run[r1].success /\ run[r1].contentHash = h
               /\ run[r2].success /\ run[r2].contentHash = h) => r1 = r2
        /\ \A r \in Runs :
              (run[r].success /\ run[r].contentHash = h)
                  => contentRegistry[h].publisher = BackendWallet

\* C2 witness: both runs passed isRegistered for the same article before
\* either registered; one registration succeeded and the other reverted
C2_Witness ==
    /\ run["tick1"].success
    /\ run["tick2"].reason = "Content already registered"
    /\ run["tick1"].contentHash = run["tick2"].contentHash
    /\ contentRegistry[run["tick1"].contentHash].publisher = BackendWallet

\* C3: a successful registerContent by P adds 1 to P's totalRegistrations, 10
\* to P's reputationScore and 1 to the global totalRegistrations, stores the
\* record with the given category and pointer and P as publisher, appends the
\* fingerprint to the end of P's index, and leaves every other publisher's
\* reputation and index as they were.
C3_RegisterEffect ==
    [][(result'.op = "registerContent" /\ result'.ok) =>
       \A h \in Hashes, in \in RegisterInputs, s \in Users :
          registerContent(s, h, in[1], in[2]) =>
             /\ publisherReputations'[s].totalRegistrations =
                    publisherReputations[s].totalRegistrations + 1
             /\ publisherReputations'[s].reputationScore =
                    publisherReputations[s].reputationScore + 10
             /\ publisherReputations'[s].verificationCount =
                    publisherReputations[s].verificationCount
             /\ totalRegistrations' = totalRegistrations + 1
             /\ ~contentRegistry[h].exists
             /\ blockTimestamp' >= blockTimestamp
             /\ contentRegistry'[h] =
                    [contentHash |-> h, timestamp |-> blockTimestamp',
                     publisher |-> s, contentType |-> in[1],
                     ipfsMetadata |-> in[2], exists |-> TRUE]
             /\ publisherContent'[s] = publisherContent[s] \o <<h>>
             /\ \A a \in Addresses \ {s} :
                    /\ publisherReputations'[a] = publisherReputations[a]
                    /\ publisherContent'[a] = publisherContent[a]
      ]_vars

\* C3 witness: a registration succeeded while another publisher already
\* holds a record of their own
C3_Witness ==
    /\ result.op = "registerContent"
    /\ result.ok
    /\ events # <<>>
    /\ events[Len(events)].name = "ContentRegistered"
    /\ \E a \in Accounts :
          /\ events[Len(events)].account # a
          /\ publisherReputations[a].reputationScore > 0

\* number of verifyContent calls that found a record published by p
VerifiedHits(p) ==
    Cardinality({i \in DOMAIN events :
                    /\ events[i].name = "ContentVerified"
                    /\ events[i].exists
                    /\ contentRegistry[events[i].contentHash].publisher = p})

\* C4: verifyContent on a registered fingerprint, by any caller, returns
\* exists = true with the stored record's fields, leaves the record as it was
\* and adds 1 to the verificationCount and 5 to the reputationScore of the
\* record's publisher and of nobody else; after n such calls the publisher's
\* verificationCount is n and the score gained from them is 5n.
C4_VerifyRewardsPublisher ==
    /\ [](\A p \in Accounts :
             /\ publisherReputations[p].verificationCount = VerifiedHits(p)
             /\ publisherReputations[p].reputationScore
                  - 10 * publisherReputations[p].totalRegistrations
                  = 5 * VerifiedHits(p))
    /\ [][result'.op = "verifyContent" =>
           \A s \in Accounts, h \in Hashes :
              (contentRegistry[h].exists /\ verifyContent(s, h)) =>
                 LET p == contentRegistry[h].publisher IN
                 /\ result'.ok
                 /\ result'.verify =
                       [exists |-> TRUE, publisher |-> p,
                        timestamp |-> contentRegistry[h].timestamp,
                        contentType |-> contentRegistry[h].contentType,
                        ipfsMetadata |-> contentRegistry[h].ipfsMetadata]
                 /\ contentRegistry' = contentRegistry
                 /\ publisherReputations'[p].verificationCount =
                       publisherReputations[p].verificationCount + 1
                 /\ publisherReputations'[p].reputationScore =
                       publisherReputations[p].reputationScore + 5
                 /\ publisherReputations'[p].totalRegistrations =
                       publisherReputations[p].totalRegistrations
                 /\ \A a \in Addresses \ {p} :
                       publisherReputations'[a] = publisherReputations[a]
        ]_vars

\* C4 witness: a record was verified twice, once by its own publisher and
\* once by somebody else, and the publisher's count is 2
C4_Witness ==
    /\ result.op = "verifyContent"
    /\ result.verify.exists
    /\ publisherReputations[result.verify.publisher].verificationCount = 2
    /\ \E i, j \in DOMAIN events :
          /\ events[i].name = "ContentVerified"
          /\ events[j].name = "ContentVerified"
          /\ events[i].exists /\ events[j].exists
          /\ events[i].account = result.verify.publisher
          /\ events[j].account # result.verify.publisher

\* C5: verifyContent on a fingerprint without a record does not revert,
\* returns exists = false with zero publisher and timestamp and empty category
\* and pointer, and leaves the registry, every reputation and index, the
\* global counter, the owner and the pause flag as they were.
C5_VerifyMiss ==
    [][result'.op = "verifyContent" =>
         \A s \in Accounts, h \in Hashes :
            (~contentRegistry[h].exists /\ verifyContent(s, h)) =>
               /\ result'.ok
               /\ result'.verify =
                     [exists |-> FALSE, publisher |-> ZeroAddress,
                      timestamp |-> 0, contentType |-> "",
                      ipfsMetadata |-> ""]
               /\ storage' = storage
      ]_vars

\* C5 witness: a non-zero fingerprint was looked up and missed while another
\* fingerprint has a record
C5_Witness ==
    /\ result.op = "verifyContent"
    /\ ~result.verify.exists
    /\ events[Len(events)].name = "ContentVerified"
    /\ events[Len(events)].contentHash # 0
    /\ \E h \in Hashes : contentRegistry[h].exists

\* C6: a record that exists is never changed and never removed by any step
\* (registerContent, verifyContent, pause, unpause, by anyone), and a slot
\* holds either no record or the record of its own fingerprint.
C6_RecordImmutable ==
    /\ [](\A h \in Hashes :
             \/ contentRegistry[h] = NoContent
             \/ /\ contentRegistry[h].exists
                /\ contentRegistry[h].contentHash = h
                /\ contentRegistry[h].publisher \in Accounts)
    /\ [][\A h \in Hashes :
             contentRegistry[h].exists =>
                 contentRegistry'[h] = contentRegistry[h]]_vars

\* C6 witness: after a record was created it was verified and the owner
\* paused, in a later block, and the record still has the fields it was
\* registered with
C6_Witness ==
    /\ Len(events) = 3
    /\ events[1].name = "ContentRegistered"
    /\ events[2].name = "ContentVerified"
    /\ events[2].contentHash = events[1].contentHash
    /\ events[3].name = "ContractPaused"
    /\ events[3].timestamp > events[1].timestamp
    /\ contentRegistry[events[1].contentHash] =
          [contentHash |-> events[1].contentHash,
           timestamp |-> events[1].timestamp,
           publisher |-> events[1].account,
           contentType |-> events[1].contentType,
           ipfsMetadata |-> events[1].ipfsMetadata,
           exists |-> TRUE]

\* C7: while paused, registerContent with otherwise valid input reverts with
\* 'Contract is paused' and changes nothing; the owner's unpause clears the
\* flag, and with the flag clear the same input succeeds when the fingerprint
\* has no record.
C7_PauseGatesRegister ==
    /\ [][result'.op = "registerContent" =>
           \A h \in Hashes \ {0}, in \in RegisterInputs, s \in Users :
              (/\ in[1] \in {"article", "image", "video"}
               /\ in[2] # ""
               /\ registerContent(s, h, in[1], in[2])) =>
                 /\ paused =>
                       /\ ~result'.ok
                       /\ result'.error = "Contract is paused"
                       /\ chain' = chain
                 /\ (~paused /\ ~contentRegistry[h].exists) =>
                       /\ result'.ok
                       /\ contentRegistry'[h].exists
        ]_vars
    /\ [][(result'.op = "unpause" /\ unpause(Deployer))
              => ~paused']_vars

\* C7 witness: the owner paused, then unpaused, and a registration went
\* through right after
C7_Witness ==
    /\ Len(events) = 3
    /\ events[1].name = "ContractPaused"
    /\ events[2].name = "ContractUnpaused"
    /\ events[3].name = "ContentRegistered"
    /\ result.op = "registerContent"
    /\ result.ok
    /\ ~paused

\* C8: while paused, verifyContent does not revert and has the effect and the
\* return value it has when active (hit: the record and the publisher's
\* reward; miss: zero fields and no change), and the four view functions
\* return the stored values without changing anything.
C8_ReadsWhilePaused ==
    [][paused =>
         /\ \A s \in Accounts, h \in Hashes :
               (result'.op = "verifyContent" /\ verifyContent(s, h)) =>
                  LET c == contentRegistry[h] IN
                  /\ result'.ok
                  /\ result'.verify.exists = c.exists
                  /\ result'.verify.publisher = c.publisher
                  /\ result'.verify.timestamp = c.timestamp
                  /\ result'.verify.contentType = c.contentType
                  /\ result'.verify.ipfsMetadata = c.ipfsMetadata
                  /\ \A a \in Addresses :
                        publisherReputations'[a] =
                           IF c.exists /\ a = c.publisher
                           THEN [totalRegistrations |->
                                    publisherReputations[a].totalRegistrations,
                                 verificationCount |->
                                    publisherReputations[a].verificationCount + 1,
                                 reputationScore |->
                                    publisherReputations[a].reputationScore + 5]
                           ELSE publisherReputations[a]
                  /\ <<contentRegistry, publisherContent, totalRegistrations,
                       owner, paused>>' =
                     <<contentRegistry, publisherContent, totalRegistrations,
                       owner, paused>>
         /\ \A p \in Accounts :
               (result'.op = "getPublisherContent" /\ getPublisherContent(p))
                  => /\ result'.ok
                     /\ result'.list = publisherContent[p]
                     /\ chain' = chain
         /\ \A p \in Accounts :
               (result'.op = "getPublisherReputation"
                  /\ getPublisherReputation(p))
                  => /\ result'.ok
                     /\ result'.rep = publisherReputations[p]
                     /\ chain' = chain
         /\ (result'.op = "getTotalRegistrations" /\ getTotalRegistrations)
               => /\ result'.ok
                  /\ result'.count = totalRegistrations
                  /\ chain' = chain
         /\ \A h \in Hashes :
               (result'.op = "getContentDetails" /\ getContentDetails(h))
                  => /\ result'.ok
                     /\ result'.content = contentRegistry[h]
                     /\ chain' = chain
      ]_vars

\* C8 witness: while paused a record was verified, its publisher was
\* rewarded, and the publisher's reputation was then read
C8_Witness ==
    /\ paused
    /\ result.op = "getPublisherReputation"
    /\ result.ok
    /\ result.rep.verificationCount = 1
    /\ Len(events) = 3
    /\ events[2].name = "ContractPaused"
    /\ events[3].name = "ContentVerified"
    /\ events[3].exists

\* C9: pause and unpause take effect only for the owner set at deployment:
\* the owner's call sets the flag and changes nothing else in storage, any
\* other sender's call reverts and changes nothing, nothing else moves the
\* flag, and the owner never changes.
C9_OnlyOwnerPauses ==
    /\ [](owner = Deployer)
    /\ [][paused' # paused => result'.op \in {"pause", "unpause"}]_vars
    /\ [][result'.op \in {"pause", "unpause"} =>
           \A s \in Accounts :
              /\ pause(s) =>
                    IF s = Deployer
                    THEN /\ result'.ok
                         /\ paused'
                    ELSE /\ ~result'.ok
                         /\ result'.error = "Only owner can call this function"
                         /\ chain' = chain
              /\ unpause(s) =>
                    IF s = Deployer
                    THEN /\ result'.ok
                         /\ ~paused'
                    ELSE /\ ~result'.ok
                         /\ result'.error = "Only owner can call this function"
                         /\ chain' = chain
              /\ (pause(s) \/ unpause(s)) =>
                    <<contentRegistry, publisherContent, publisherReputations,
                      totalRegistrations, owner>>' =
                    <<contentRegistry, publisherContent, publisherReputations,
                      totalRegistrations, owner>>
        ]_vars

\* C9 witness: somebody other than the owner tried to unpause the paused
\* registry, was turned away, and the registry, which holds a record, is
\* still paused
C9_Witness ==
    /\ paused
    /\ result.op = "unpause"
    /\ ~result.ok
    /\ totalRegistrations > 0

\* the sum of f[a] over the a in S
RECURSIVE SumOver(_, _)
SumOver(f, S) ==
    IF S = {} THEN 0
    ELSE LET a == CHOOSE x \in S : TRUE IN f[a] + SumOver(f, S \ {a})

\* C10: the global totalRegistrations equals the number of records that
\* exist, the sum of the publishers' totalRegistrations and the sum of the
\* lengths of the publishers' indexes.
C10_CountersAgree ==
    /\ totalRegistrations =
          Cardinality({h \in Hashes : contentRegistry[h].exists})
    /\ totalRegistrations =
          SumOver([a \in Addresses |->
                      publisherReputations[a].totalRegistrations], Addresses)
    /\ totalRegistrations =
          SumOver([a \in Addresses |-> Len(publisherContent[a])], Addresses)

\* C10 witness: two records by two different publishers
C10_Witness ==
    /\ totalRegistrations = 2
    /\ \E a, b \in Accounts :
          /\ a # b
          /\ Len(publisherContent[a]) = 1
          /\ Len(publisherContent[b]) = 1

\* C11: for every publisher reputationScore = 10 * totalRegistrations +
\* 5 * verificationCount in every reachable state, and no step of any
\* operation lowers or resets totalRegistrations, verificationCount or
\* reputationScore of any publisher.
C11_ScoreFormula ==
    /\ [](\A p \in Addresses :
             publisherReputations[p].reputationScore =
                10 * publisherReputations[p].totalRegistrations
                 + 5 * publisherReputations[p].verificationCount)
    /\ [][\A p \in Addresses :
             /\ publisherReputations'[p].totalRegistrations
                   >= publisherReputations[p].totalRegistrations
             /\ publisherReputations'[p].verificationCount
                   >= publisherReputations[p].verificationCount
             /\ publisherReputations'[p].reputationScore
                   >= publisherReputations[p].reputationScore]_vars

\* C11 witness: a publisher with one registration and two verifications
\* holds the score 20
C11_Witness ==
    \E p \in Accounts :
        /\ publisherReputations[p].totalRegistrations = 1
        /\ publisherReputations[p].verificationCount = 2
        /\ publisherReputations[p].reputationScore = 20

\* C12 as stated: a registerContent call reports the error of each
\* precondition it violates, whatever the other arguments are.
C12_EveryViolationNamed ==
    [][result'.op = "registerContent" =>
         \A h \in Hashes, in \in RegisterInputs, s \in Users :
            registerContent(s, h, in[1], in[2]) =>
               /\ h = 0 => result'.error = "Content hash cannot be empty"
               /\ in[1] \notin {"article", "image", "video"}
                     => result'.error = "Invalid content type"
               /\ in[2] = "" => result'.error = "IPFS metadata required"
               /\ contentRegistry[h].exists
                     => result'.error = "Content already registered"
               /\ paused => result'.error = "Contract is paused"
      ]_vars

\* C12 amended: a registerContent call reports the error of the first
\* precondition it violates, in the order paused, category, zero fingerprint,
\* duplicate, empty pointer: 'Contract is paused' whenever the registry is
\* paused; 'Invalid content type' whenever it is active and the category is
\* not article, image or video; 'Content hash cannot be empty' whenever
\* moreover the category is valid and the fingerprint is zero; 'Content
\* already registered' whenever moreover the fingerprint is non-zero and has
\* a record; 'IPFS metadata required' whenever moreover it has no record and
\* the pointer is empty; and the call succeeds when nothing is violated.
C12_FirstViolationNamed ==
    [][result'.op = "registerContent" =>
         \A h \in Hashes, in \in RegisterInputs, s \in Users :
            registerContent(s, h, in[1], in[2]) =>
               LET valid == in[1] \in {"article", "image", "video"} IN
               /\ paused =>
                     (~result'.ok /\ result'.error = "Contract is paused")
               /\ (~paused /\ ~valid) =>
                     (~result'.ok /\ result'.error = "Invalid content type")
               /\ (~paused /\ valid /\ h = 0) =>
                     (/\ ~result'.ok
                      /\ result'.error = "Content hash cannot be empty")
               /\ (~paused /\ valid /\ h # 0 /\ contentRegistry[h].exists) =>
                     (/\ ~result'.ok
                      /\ result'.error = "Content already registered")
               /\ (/\ ~paused /\ valid /\ h # 0
                   /\ ~contentRegistry[h].exists /\ in[2] = "") =>
                     (~result'.ok /\ result'.error = "IPFS metadata required")
               /\ (/\ ~paused /\ valid /\ h # 0
                   /\ ~contentRegistry[h].exists /\ in[2] # "") =>
                     (result'.ok /\ result'.error = "")
      ]_vars

\* C12 witness: a registerContent with the zero fingerprint was rejected for
\* its fingerprint on a registry that holds a record
C12_Witness ==
    /\ result.op = "registerContent"
    /\ ~result.ok
    /\ result.error = "Content hash cannot be empty"
    /\ totalRegistrations > 0

\* C13: a registerContent call that violates a precondition (zero
\* fingerprint, empty pointer, invalid category, duplicate, paused) fails, and
\* a failed registerContent leaves the registry, every index, every
\* reputation, the global counter, the owner, the pause flag and the event
\* log as they were.
C13_FailedRegisterNoEffect ==
    [][result'.op = "registerContent" =>
         /\ \A h \in Hashes, in \in RegisterInputs, s \in Users :
               (/\ registerContent(s, h, in[1], in[2])
                /\ \/ h = 0
                   \/ in[2] = ""
                   \/ in[1] \notin {"article", "image", "video"}
                   \/ contentRegistry[h].exists
                   \/ paused)
                 => ~result'.ok
         /\ ~result'.ok =>
               /\ contentRegistry' = contentRegistry
               /\ publisherContent' = publisherContent
               /\ publisherReputations' = publisherReputations
               /\ totalRegistrations' = totalRegistrations
               /\ owner' = owner
               /\ paused' = paused
               /\ events' = events
      ]_vars

\* C13 witness: after a registration and a verification a call was rejected
\* for its empty pointer, and the counter and the log are as they were
C13_Witness ==
    /\ result.op = "registerContent"
    /\ ~result.ok
    /\ result.error = "IPFS metadata required"
    /\ totalRegistrations = 1
    /\ Len(events) = 2
    /\ events[2].name = "ContentVerified"

\* the fingerprints of the ContentRegistered events sent by p, in log order
RECURSIVE RegisteredBy(_, _)
RegisteredBy(p, log) ==
    IF log = <<>> THEN <<>>
    ELSE LET e == log[Len(log)]
             before == RegisteredBy(p, SubSeq(log, 1, Len(log) - 1))
         IN IF e.name = "ContentRegistered" /\ e.account = p
            THEN Append(before, e.contentHash)
            ELSE before

IsPrefix(a, b) == Len(a) <= Len(b) /\ SubSeq(b, 1, Len(a)) = a

\* the ledger's side of the per-publisher index: publisherContent[P] is the
\* list of the fingerprints P registered, each once, in registration order;
\* every entry has a record published by P; no fingerprint is in two indexes;
\* a step only appends; the contract's getPublisherContent returns the list
PublisherIndexOnLedger ==
    /\ [](\A p \in Addresses :
             /\ publisherContent[p] = RegisteredBy(p, events)
             /\ \A i, j \in DOMAIN publisherContent[p] :
                   publisherContent[p][i] = publisherContent[p][j] => i = j
             /\ \A i \in DOMAIN publisherContent[p] :
                   /\ contentRegistry[publisherContent[p][i]].exists
                   /\ contentRegistry[publisherContent[p][i]].publisher = p
             /\ \A q \in Addresses \ {p} :
                   \A i \in DOMAIN publisherContent[p],
                      j \in DOMAIN publisherContent[q] :
                        publisherContent[p][i] # publisherContent[q][j])
    /\ [][\A p \in Addresses :
             IsPrefix(publisherContent[p], publisherContent'[p])]_vars
    /\ [][result'.op = "getPublisherContent" =>
             \A p \in Users :
                getPublisherContent(p) => result'.list = publisherContent[p]
        ]_vars

\* the client's getPublisherContent never returns a fingerprint that is not
\* in the publisher's index
ClientReturnsPrefix ==
    lookup.pc = "returned" =>
        IsPrefix(lookup.hashes, publisherContent[lookup.publisherAddress])

\* C14: publisherContent[P] is exactly the fingerprints P registered, each
\* once, in registration order, append-only, every entry with a record
\* published by P, no fingerprint in two indexes; the contract's view returns
\* it, and the client's getPublisherContent returns that same list (the index
\* as it is when the client's loop ends), or nothing at all when its read of
\* the ledger failed (off-chain read failures degrade to empty results).
C14_ClientReturnsIndex ==
    /\ PublisherIndexOnLedger
    /\ [][(lookup.pc = "loop" /\ lookup'.pc = "returned") =>
             \/ lookup'.hashes = publisherContent[lookup.publisherAddress]
             \/ lookup'.hashes = <<>>]_vars

\* the exact lookup of the current handleSearch has returned, and hit / missed
PortalFound ==
    IF portal.run[1].verificationMode = "image"
    THEN portal.imageBlockchainMatch.found
    ELSE portal.exactBlockchainMatch.found
PortalHit == portal.run[1].started # <<>> /\ portal.run[1].pc # "verify" /\ PortalFound
PortalMiss == portal.run[1].started # <<>> /\ portal.run[1].pc # "verify" /\ ~PortalFound
PortalStarted(op) == \E i \in DOMAIN portal.run[1].started : portal.run[1].started[i] = op

\* C15 as stated: in handleSearch the exact lookup verifyContent is the first
\* operation started; after it hit, nothing else is started (no fuzzy search,
\* no oracle analysis) and the exact match is the result; searchVerifiedNews
\* is started only after the lookup missed.
C15_HitStartsNothingElse ==
    /\ portal.run[1].started # <<>> => portal.run[1].started[1] = "verifyContent"
    /\ PortalHit => /\ portal.run[1].started = <<"verifyContent">>
                    /\ portal.searchResults = "null"
    /\ PortalStarted("searchVerifiedNews") => PortalMiss

\* C15 amended: in handleSearch the exact lookup verifyContent is the first
\* operation started; after it hit, the exact match (of the looked-up
\* fingerprint, with the record's publisher) is the result and the fuzzy
\* search is not started: image mode starts nothing else and ends, text mode
\* still starts the oracle analysis analyzeNewsContent and nothing else;
\* searchVerifiedNews and analyzeNewsImage are started only after the lookup
\* missed.
C15_HitSkipsFuzzySearch ==
    /\ portal.run[1].started # <<>> => portal.run[1].started[1] = "verifyContent"
    /\ PortalHit =>
          LET match == IF portal.run[1].verificationMode = "image"
                       THEN portal.imageBlockchainMatch
                       ELSE portal.exactBlockchainMatch
          IN /\ portal.searchResults = "null"
             /\ portal.activeTab = "blockchain"
             /\ match.contentHash = portal.run[1].bytes32Hash
             /\ contentRegistry[match.contentHash].exists
             /\ match.publisher = contentRegistry[match.contentHash].publisher
             /\ portal.run[1].verificationMode = "image" =>
                   (portal.run[1].started = <<"verifyContent">> /\ portal.run[1].pc = "done")
             /\ portal.run[1].verificationMode = "text" =>
                   portal.run[1].started = <<"verifyContent", "analyzeNewsContent">>
    /\ PortalStarted("searchVerifiedNews") => PortalMiss
    /\ PortalStarted("analyzeNewsImage") => PortalMiss

\* C15 witness: a text search whose exact lookup hit has ended after the
\* oracle analysis, without a fuzzy search
C15_Witness ==
    /\ portal.run[1].pc = "done"
    /\ portal.run[1].verificationMode = "text"
    /\ portal.exactBlockchainMatch.found
    /\ portal.run[1].started = <<"verifyContent", "analyzeNewsContent">>
    /\ portal.aiAnalysis = "aiResult"

\* C16: every exact lookup by handleSearch (the client's verifyContent) that
\* finds existing content adds 1 to the verificationCount and 5 to the
\* reputationScore of that content's publisher on the ledger.
C16_PortalLookupRewards ==
    [][(/\ portal.run[1].pc = "verify"
        /\ portal'.run[1].pc # "verify"
        /\ IF portal.run[1].verificationMode = "image"
           THEN portal'.imageBlockchainMatch.found
           ELSE portal'.exactBlockchainMatch.found) =>
          LET p == contentRegistry[portal.run[1].bytes32Hash].publisher IN
          /\ publisherReputations'[p].verificationCount =
                publisherReputations[p].verificationCount + 1
          /\ publisherReputations'[p].reputationScore =
                publisherReputations[p].reputationScore + 5
      ]_vars

\* ---------------------------------------------------------------- scoring, as the spec words it
\* a occurs in b: b = u \o a \o v for some u, v
Contains(b, a) ==
    \E i \in 0..(Len(b) - Len(a)) : SubSeq(b, i + 1, i + Len(a)) = a

\* str without its surrounding whitespace
Trimmed(str) ==
    LET ink == {i \in 1..Len(str) : CharAt(str, i) \notin Whitespace} IN
    IF ink = {} THEN ""
    ELSE SubSeq(str, CHOOSE i \in ink : \A j \in ink : i <= j,
                     CHOOSE i \in ink : \A j \in ink : i >= j)

\* the positions where a word of str begins, and the word that begins there:
\* a word is a maximal run of characters that are not whitespace
WordStarts(str) ==
    {i \in 1..Len(str) :
        /\ CharAt(str, i) \notin Whitespace
        /\ i = 1 \/ CharAt(str, i - 1) \in Whitespace}
WordAt(str, i) ==
    SubSeq(str, i,
           CHOOSE j \in i..Len(str) :
              /\ \A k \in i..j : CharAt(str, k) \notin Whitespace
              /\ j = Len(str) \/ CharAt(str, j + 1) \in Whitespace)
WordsOf(str) == {WordAt(str, i) : i \in WordStarts(str)}

\* the pieces split(/\\s+/) cuts a title into: its words, and an empty piece
\* when the title begins or ends with whitespace
PiecesOf(str) ==
    WordsOf(str) \cup
        (IF \/ str = ""
            \/ CharAt(str, 1) \in Whitespace
            \/ CharAt(str, Len(str)) \in Whitespace
         THEN {""} ELSE {})

\* the positions of the query words longer than 3 characters, and of those
\* that are a substring of, or contain, one of the title words tws
Considered(q) == {i \in WordStarts(q) : Len(WordAt(q, i)) > 3}
Matched(q, tws) ==
    {i \in Considered(q) :
        \E sw \in {WordAt(q, i)} :
            \E tw \in tws : Contains(tw, sw) \/ Contains(sw, tw)}

\* r is num / den rounded to the nearest integer
IsRounded(r, num, den) ==
    2 * den * r - den <= 2 * num /\ 2 * num < 2 * den * r + den

\* the loop has scored a candidate that has a title: its title, the query,
\* and both lower-cased
ScoredTitle == search.metadataResults[search.index].title
SearchScored == search.pc = "for" /\ search.index > 0 /\ ScoredTitle # ""
QueryLower == toLowerCase(search.searchQuery)
TitleLower == toLowerCase(ScoredTitle)

\* C17: a query that equals a candidate's title after lower-casing both and
\* trimming the surrounding whitespace of both (and is not blank) scores 100
\* for that candidate.
C17_EqualAfterTrimScores100 ==
    (/\ SearchScored
     /\ Trimmed(QueryLower) # ""
     /\ Trimmed(QueryLower) = Trimmed(TitleLower))
        => search.similarity = 100

\* the same with the title taken as it is stored
EqualToStoredTitleScores100 ==
    (SearchScored /\ Trimmed(QueryLower) = TitleLower)
        => search.similarity = 100

\* C18 as stated: when the lower-cased query and the lower-cased title are
\* not equal and one of the two contains the other, the candidate scores 80.
C18_LowerCasedContainmentScores80 ==
    (/\ SearchScored
     /\ QueryLower # TitleLower
     /\ Contains(QueryLower, TitleLower) \/ Contains(TitleLower, QueryLower))
        => search.similarity = 80

\* C18 amended: when the lower-cased query with its surrounding whitespace
\* trimmed and the lower-cased title are not equal and one of the two
\* contains the other, the candidate scores exactly 80 and is listed with it.
C18_TrimmedContainmentScores80 ==
    (/\ SearchScored
     /\ Trimmed(QueryLower) # TitleLower
     /\ \/ Contains(Trimmed(QueryLower), TitleLower)
        \/ Contains(TitleLower, Trimmed(QueryLower)))
        => /\ search.similarity = 80
           /\ search.matches # <<>>
           /\ search.matches[Len(search.matches)] =
                 [title |-> ScoredTitle, similarity |-> 80]

\* C18 witness: the query 'find ', trimmed to 'find', scored 80 against the
\* title 'Scientists Find New Planet'
C18_Witness ==
    /\ SearchScored
    /\ search.searchQuery = "find "
    /\ ScoredTitle = "Scientists Find New Planet"
    /\ search.similarity = 80

\* neither the equality tier nor the containment tier applies to the query q
\* and the title t
NoTierApplies(q, t) == q # t /\ ~Contains(q, t) /\ ~Contains(t, q)

\* the score is round(100 * matched / considered) for the query q and the
\* title words tws, and 0 when no query word is considered
ScoreIsWordRatio(q, tws) ==
    \E considered \in {Cardinality(Considered(q))} :
    \E matched \in {Cardinality(Matched(q, tws))} :
        IF considered = 0 THEN search.similarity = 0
        ELSE IsRounded(search.similarity, 100 * matched, considered)

\* the scored candidate is not in the match list
NotListed ==
    \A k \in 1..Len(search.matches) : search.matches[k].title # ScoredTitle

\* C19: when neither the equality nor the containment tier applies, the score
\* is round(100 * matched / considered), considered the number of
\* whitespace-separated query words longer than 3 characters and matched the
\* number of those that are a substring of, or contain, some word of the
\* title, and 0 when no query word qualifies; and 'scientists find planet.'
\* scores at least 50 against 'Scientists Find New Planet' and against
\* 'Scientists Discover New Planet'.
C19_WordRatioScore ==
    SearchScored =>
        \A q \in {Trimmed(QueryLower)}, t \in {TitleLower} :
            /\ NoTierApplies(q, t) => ScoreIsWordRatio(q, WordsOf(t))
            /\ (/\ search.searchQuery = "scientists find planet."
                /\ ScoredTitle \in {"Scientists Find New Planet",
                                    "Scientists Discover New Planet"})
                  => search.similarity >= 50

\* the same for the titles that neither begin nor end with whitespace, and,
\* for every title, with the pieces split cuts the title into as its words
WordRatioScoreOfPieces ==
    SearchScored =>
        \A q \in {Trimmed(QueryLower)}, t \in {TitleLower} :
            /\ NoTierApplies(q, t) => ScoreIsWordRatio(q, PiecesOf(t))
            /\ (NoTierApplies(q, t) /\ Trimmed(t) = t)
                  => ScoreIsWordRatio(q, WordsOf(t))

\* C20 as stated: a query and a title that share no word and of which neither
\* contains the other (both lower-cased, the query trimmed) score below 50,
\* and the candidate is not listed; stated here for the titles that neither
\* begin nor end with whitespace.
C20_NoSharedWordBelow50 ==
    SearchScored =>
        \A q \in {Trimmed(QueryLower)}, t \in {TitleLower} :
            (/\ Trimmed(t) = t
             /\ NoTierApplies(q, t)
             /\ WordsOf(q) \cap WordsOf(t) = {})
                => search.similarity < 50 /\ NotListed

\* C20 amended: a query and a title score 0, and the candidate is not listed,
\* when the trimmed lower-cased query and the lower-cased title are not equal,
\* neither contains the other, and no query word longer than 3 characters is
\* a substring of, or contains, a piece of the title (its words, and the empty
\* piece of a title that begins or ends with whitespace).
C20_NoWordOverlapScores0 ==
    SearchScored =>
        \A q \in {Trimmed(QueryLower)}, t \in {TitleLower} :
            (NoTierApplies(q, t) /\ Matched(q, PiecesOf(t)) = {})
                => search.similarity = 0 /\ NotListed

\* C20 witness: 'quake' scored 0 against 'Scientists Discover New Planet'
\* and is not listed
C20_Witness ==
    /\ SearchScored
    /\ search.searchQuery = "quake"
    /\ ScoredTitle = "Scientists Discover New Planet"
    /\ search.similarity = 0
    /\ NotListed

\* ---------------------------------------------------------------- the match list
\* the candidates of the search: the positions of the fetched metadata that
\* has a title, and the score of each (0 for a title that cannot be scored)
Candidates ==
    {k \in DOMAIN search.metadataResults :
        search.metadataResults[k].title # ""}
ScoreOf(k) ==
    IF search.metadataResults[k].typeofTitle = "string"
    THEN Similarity(search.metadataResults[k].title, search.searchLower)
    ELSE 0

\* the returned list ms against the scores sc of the candidates: only
\* candidates scoring 50 or more, highest first, ten at most, and a candidate
\* scoring 50 or more is left out only when ten returned ones score as high
IsTopTen(ms, sc) ==
    LET Returned(k) ==
            {j \in DOMAIN ms :
                ms[j] = [title |-> search.metadataResults[k].title,
                         similarity |-> sc[k]]}
        Alike(k) ==
            {l \in Candidates :
                /\ search.metadataResults[l].title =
                      search.metadataResults[k].title
                /\ sc[l] = sc[k]}
    IN /\ \A j \in DOMAIN ms :
            /\ ms[j].similarity >= 50
            /\ \E k \in Candidates : j \in Returned(k)
       /\ \A i, j \in DOMAIN ms :
            i < j => ms[i].similarity >= ms[j].similarity
       /\ Len(ms) <= 10
       /\ \A k \in Candidates :
            Cardinality(Returned(k)) <= Cardinality(Alike(k))
       /\ \A k \in Candidates :
            (sc[k] >= 50 /\ Cardinality(Returned(k)) < Cardinality(Alike(k)))
                => /\ Len(ms) = 10
                   /\ \A j \in DOMAIN ms : ms[j].similarity >= sc[k]

\* C21: the returned match list holds only candidates scoring at least 50,
\* in non-increasing order of score, ten at most, and leaves out a candidate
\* scoring at least 50 only when ten returned candidates score at least as
\* high; found is true exactly when the list is not empty.
C21_MatchListIsTopTen ==
    search.pc = "returned" =>
        /\ \A sc \in {[k \in DOMAIN search.metadataResults |-> ScoreOf(k)]} :
              IsTopTen(search.matches, sc)
        /\ search.found <=> search.matches # <<>>

\* the same for the searches whose candidates all have a string for a title
MatchListOfStringTitles ==
    (/\ search.pc = "returned"
     /\ \A k \in DOMAIN search.metadataResults :
           search.metadataResults[k].typeofTitle = "string")
        => /\ \A sc \in {[k \in DOMAIN search.metadataResults |-> ScoreOf(k)]} :
                 IsTopTen(search.matches, sc)
           /\ search.found <=> search.matches # <<>>

\* a returned list of ten that leaves a candidate scoring 80 out and begins
\* with a candidate scored after it
TenOfTwelveReturned ==
    /\ search.pc = "returned"
    /\ Len(search.metadataResults) = 13
    /\ Len(search.matches) = 10
    /\ search.matches[1] = [title |-> "Find", similarity |-> 100]
    /\ search.matches[10].similarity = 80

\* ---------------------------------------------------------------- the window
\* the positions in the log of the ContentRegistered events, and those of
\* them that have fewer than n such events after them
Registrations == {i \in DOMAIN events : events[i].name = "ContentRegistered"}
MostRecent(n, among) ==
    {i \in among : Cardinality({j \in among : j > i}) < n}
ArticleRegistrations ==
    {i \in Registrations : events[i].contentType = "article"}
Range(seq) == {seq[k] : k \in DOMAIN seq}

\* C22: when the node answers, the search keeps for scoring every article
\* registration among the 20 most recently registered entries, in particular
\* each of the 20 most recent article registrations, and nothing that is not
\* an article registration among the 20 most recently registered entries.
C22_WindowIsLast20 ==
    [][SearchRecentArticles(FALSE) =>
        \A kept \in {Range(recent'.articleRegs)} :
            /\ \A i \in MostRecent(RecentLimit, Registrations) :
                  events[i].contentType = "article"
                      => RegistrationOf(events[i]) \in kept
            /\ \A i \in MostRecent(RecentLimit, ArticleRegistrations) :
                  RegistrationOf(events[i]) \in kept
            /\ \A reg \in kept :
                  \E i \in MostRecent(RecentLimit, Registrations) :
                      /\ events[i].contentType = "article"
                      /\ RegistrationOf(events[i]) = reg]_vars

\* the same for the registrations of the last 5000 blocks
WindowIsLast20OfBlockRange ==
    [][SearchRecentArticles(FALSE) =>
        \A kept \in {Range(recent'.articleRegs)} :
        \A inRange \in {{i \in Registrations :
                            blocks.number - blocks.ofEvent[i] <= BlockRange}} :
            /\ \A i \in MostRecent(RecentLimit, inRange) :
                  events[i].contentType = "article"
                      => RegistrationOf(events[i]) \in kept
            /\ \A reg \in kept :
                  \E i \in MostRecent(RecentLimit, inRange) :
                      /\ events[i].contentType = "article"
                      /\ RegistrationOf(events[i]) = reg]_vars

\* ---------------------------------------------------------------- reads that fail
\* C23: every read operation of the client returns, and returns its empty
\* answer when the contract is not configured or a call fails underneath; it
\* never throws.
C23_ReadsNeverThrow ==
    call.op \in ReadOps =>
        /\ call.outcome = "returned"
        /\ (call.CONTRACT_ADDRESS = "" \/ call.fault # "none")
              => \E h \in Hashes : call.value = EmptyAnswer(call.op, h)

\* the same for the read operations other than verifyContent, and for
\* verifyContent when the contract is configured; getPublisherContent
\* answers the part of the index it had read
ReadsOfConfiguredNeverThrow ==
    (/\ call.op \in ReadOps
     /\ call.op # "verifyContent" \/ call.CONTRACT_ADDRESS # "")
        => /\ call.outcome = "returned"
           /\ (call.CONTRACT_ADDRESS = "" \/ call.fault # "none")
                 => \/ \E h \in Hashes : call.value = EmptyAnswer(call.op, h)
                    \/ /\ call.op = "getPublisherContent"
                       /\ Len(call.value) <= 1

\* ---------------------------------------------------------------- C24
\* C24: every external call of a verification has a bounded wait, so every
\* verification that was started produces its verdict and resets the
\* in-progress flag isSearching, whichever services never answer.
C24_VerificationEnds ==
    portal.isSearching ~> (~portal.isSearching /\ portal.run[1].pc = "done")

\* ---------------------------------------------------------------- C25
\* the sources that delivered data to the call of analyzeNewsContent
SourcesWithData ==
    (IF ~analysis.geminiResult.null THEN 1 ELSE 0)
    + (IF ~analysis.perplexityResult.null THEN 1 ELSE 0)
    + (IF analysis.googleFactChecks # <<>> THEN 1 ELSE 0)

\* the results hold what the sources other than the failed ones delivered
KeepsDelivered ==
    /\ ~analysis.geminiResult.null =>
          analysis.results.aiAnalysis = analysis.geminiResult.analysis
    /\ ~analysis.perplexityResult.null =>
          /\ analysis.results.perplexityInsights =
                analysis.perplexityResult.insights
          /\ analysis.results.relatedArticles =
                analysis.perplexityResult.relatedArticles
    /\ analysis.results.factChecks = analysis.googleFactChecks

\* C25: a failed or timed-out oracle call yields no data for that source
\* only: analyzeNewsContent never throws, keeps the data the other sources
\* delivered, sends no request twice, and its confidence is high with 3 or
\* more sources with data, medium with 2, low with fewer (so it never
\* increases when a source's data is removed).
C25_NoDataForThatSourceOnly ==
    /\ analysis.outcome # "threw"
    /\ \A o \in Oracles : analysis.sent[o] <= 1
    /\ analysis.pc = "returned" =>
          /\ KeepsDelivered
          /\ analysis.results.confidence =
                IF SourcesWithData >= 3 THEN "high"
                ELSE IF SourcesWithData = 2 THEN "medium" ELSE "low"

\* what holds of analyzeNewsContent: it never throws and sends no request
\* twice; when the flags Gemini delivered are arrays, it keeps what each
\* source delivered and its confidence counts the data points (analysis
\* text, insights, related articles, fact checks); else it returns what it
\* had merged before the flags, with confidence low
AnalysisDegrades ==
    /\ analysis.outcome # "threw"
    /\ \A o \in Oracles : analysis.sent[o] <= 1
    /\ analysis.pc = "returned" =>
          IF analysis.geminiResult.null
             \/ analysis.geminiResult.typeofFlags = "array"
          THEN /\ KeepsDelivered
               /\ analysis.results.confidence =
                     LET n == DataPoints(analysis.results) IN
                     IF n >= 3 THEN "high"
                     ELSE IF n = 2 THEN "medium" ELSE "low"
          ELSE /\ analysis.results.confidence = "low"
               /\ analysis.results.perplexityInsights = ""
               /\ analysis.results.factChecks = <<>>

\* ---------------------------------------------------------------- C26
\* the entry stored for a locator is younger than 5 minutes
Fresh(ipfsHash) ==
    /\ cache.ipfsCache[ipfsHash].stored
    /\ cache.now - cache.ipfsCache[ipfsHash].timestamp < 5

\* C26: for each locator, a call of fetchIPFSWithCache returns the stored
\* data without an external call exactly while the stored entry is younger
\* than 5 minutes, else it fetches; no entry is ever removed; an entry is
\* written only by a fetch that succeeded, with the data and the time of
\* that fetch; a fetch that failed returns null and leaves the Map alone,
\* stale entry included.
C26_CacheByAge ==
    [][/\ \A c \in CacheCalls, h \in Locators :
             FetchIPFSWithCache(c, h) =>
                /\ cache'.ipfsCache = cache.ipfsCache
                /\ IF Fresh(h)
                   THEN /\ cache'.call[c].pc = "returned"
                        /\ ~cache'.call[c].external
                        /\ cache'.call[c].value = cache.ipfsCache[h].data
                   ELSE /\ cache'.call[c].pc = "fetch"
                        /\ cache'.call[c].external
       /\ \A h \in Locators :
             /\ cache.ipfsCache[h].stored => cache'.ipfsCache[h].stored
             /\ cache'.ipfsCache[h] # cache.ipfsCache[h] =>
                   \E c \in CacheCalls, data \in MetadataVersions :
                      /\ FetchCompletes(c, TRUE, data)
                      /\ cache.call[c].ipfsHash = h
                      /\ cache'.ipfsCache[h] =
                            [stored |-> TRUE, data |-> data,
                             timestamp |-> cache.now]
                      /\ cache'.call[c].value = data
       /\ \A c \in CacheCalls, data \in MetadataVersions :
             FetchCompletes(c, FALSE, data) =>
                /\ cache'.call[c].pc = "returned"
                /\ cache'.call[c].value = "null"
                /\ cache'.ipfsCache = cache.ipfsCache
      ]_vars

\* C26 witness: the refetch of an entry that is 5 minutes old failed: the
\* call made an external call and returned null, the stale entry is still
\* stored, and the other call got the stored data without an external call
C26_Witness ==
    /\ cache.ipfsCache["QmA"].stored
    /\ cache.ipfsCache["QmA"].data = "v1"
    /\ cache.now - cache.ipfsCache["QmA"].timestamp = 5
    /\ cache.call[1] = [pc |-> "returned", ipfsHash |-> "QmA",
                        external |-> TRUE, value |-> "null"]
    /\ cache.call[2] = [pc |-> "returned", ipfsHash |-> "QmA",
                        external |-> FALSE, value |-> "v1"]

\* ---------------------------------------------------------------- C27
\* the step ends a call of registerArticle by run r
AttemptEnds(r) ==
    \/ \E a \in Articles, f \in BOOLEAN :
          BackendCheck(r, a, f) /\ run'[r].pc = "idle"
    \/ BackendRegister(r)
    \/ BackendWaitFails(r)

\* C27: the fingerprint of an article is a function of its title, source id
\* and publishedAt alone; however often the article is ingested, by
\* overlapping runs, by later runs or after a restart of the service, the
\* ledger holds at most one registration of its fingerprint, and every
\* attempt that ends when the fingerprint is registered already returns
\* success false and leaves the registry as it was.
C27_IngestionIdempotent ==
    [][/\ \A a, b \in Articles :
             (/\ a.title = b.title /\ a.sourceId = b.sourceId
              /\ a.publishedAt = b.publishedAt)
                => generateContentHash(a) = generateContentHash(b)
       /\ \A h \in Hashes :
             Cardinality({i \in DOMAIN events' :
                            /\ events'[i].name = "ContentRegistered"
                            /\ events'[i].contentHash = h}) <= 1
       /\ \A r \in Runs :
             AttemptEnds(r) =>
                LET h == run'[r].contentHash IN
                /\ contentRegistry[h].exists =>
                      /\ ~run'[r].success
                      /\ contentRegistry' = contentRegistry
                      /\ totalRegistrations' = totalRegistrations
                      /\ events' = events
                /\ run'[r].success =>
                      /\ ~contentRegistry[h].exists
                      /\ contentRegistry'[h].exists
                      /\ contentRegistry'[h].publisher = BackendWallet
      ]_vars

\* C27 witness: the Set of the service is empty (it was restarted, or the
\* wait for the receipt failed); the article registered before is ingested
\* again, the read of the registry fails, the transaction is sent and
\* reverts: success false, one registration
C27_Witness ==
    /\ registeredHashes = {}
    /\ contentRegistry[1].exists
    /\ contentRegistry[1].publisher = BackendWallet
    /\ totalRegistrations = 1
    /\ run["tick1"].pc = "idle"
    /\ run["tick1"].contentHash = 1
    /\ ~run["tick1"].success
    /\ run["tick1"].reason = "Content already registered"
    /\ run["tick2"] = IdleRun

\* ---------------------------------------------------------------- C28
\* the entry of the log equals the stored record of its fingerprint
MirrorsRecord(event, content) ==
    /\ event.name = "ContentRegistered"
    /\ content.exists
    /\ event.contentHash = content.contentHash
    /\ event.account = content.publisher
    /\ event.timestamp = content.timestamp
    /\ event.contentType = content.contentType
    /\ event.ipfsMetadata = content.ipfsMetadata

\* what each Register and each Verify appends to the log
LogStep ==
    /\ \A s \in Users, h \in Hashes,
          in \in {<<"article", "QmA">>, <<"image", "">>} :
          (result'.op = "registerContent"
             /\ registerContent(s, h, in[1], in[2])) =>
             IF result'.ok
             THEN /\ Len(events') = Len(events) + 1
                  /\ SubSeq(events', 1, Len(events)) = events
                  /\ MirrorsRecord(events'[Len(events')], contentRegistry'[h])
                  /\ events'[Len(events')].contentHash = h
                  /\ events'[Len(events')].account = s
             ELSE events' = events
    /\ \A h \in Hashes :
          (result'.op = "verifyContent" /\ verifyContent("alice", h)) =>
             /\ Len(events') = Len(events) + 1
             /\ SubSeq(events', 1, Len(events)) = events
             /\ events'[Len(events')].name = "ContentVerified"
             /\ events'[Len(events')].contentHash = h
             /\ events'[Len(events')].exists = contentRegistry[h].exists
             /\ events'[Len(events')].account = "alice"

\* the ContentRegistered entries of the log, oldest first
RegisteredLog == SelectSeq(events, LAMBDA e : e.name = "ContentRegistered")

\* the list holds each existing record once, with the fields stored
ListsExistingRecords(list) ==
    /\ Len(list) = Cardinality({h \in Hashes : contentRegistry[h].exists})
    /\ \A h \in Hashes :
          contentRegistry[h].exists =>
             \E i \in DOMAIN list :
                /\ list[i].contentHash = h
                /\ list[i].publisher = contentRegistry[h].publisher
                /\ list[i].timestamp = contentRegistry[h].timestamp
                /\ list[i].contentType = contentRegistry[h].contentType
                /\ list[i].ipfsMetadata = contentRegistry[h].ipfsMetadata

\* position of the registration of fingerprint h in the log
RegisteredAt(h) ==
    CHOOSE i \in DOMAIN RegisteredLog : RegisteredLog[i].contentHash = h

\* a replay of the client that was answered
Replayed ==
    /\ call.CONTRACT_ADDRESS # ""
    /\ ClientRead("getAllRegisteredContent", 0, Deployer, "none", 0)

RoundTrip(T) ==
    /\ HandleSearch(1, "text", FALSE, T, FALSE) =>
          /\ portal'.run[1].pc = "verify"
          /\ portal'.run[1].bytes32Hash = DashboardDigest[T]
    /\ (portal.run[1].searchQuery = T /\ PortalVerifyReturns(1, FALSE)) =>
          /\ portal'.exactBlockchainMatch.found
          /\ portal'.exactBlockchainMatch.contentHash = DashboardDigest[T]
          /\ portal'.exactBlockchainMatch.publisher =
                dashboard.walletAddress

\* C29: for every text T registered through the dashboard, submitting the
\* same T to the portal computes the same fingerprint and reports an exact
\* on-chain match.
C29_RegisterThenVerify ==
    [][\A T \in dashboard.registered : RoundTrip(T)]_vars

\* what holds: the round trip of a registered text that has no whitespace
\* at its ends
RoundTripOfTrimmedText ==
    [][\A T \in dashboard.registered : TrimQuery(T) = T => RoundTrip(T)]_vars

\* a registered text without whitespace at its ends was verified with an
\* exact match
RoundTripDone ==
    /\ "vote today" \in dashboard.registered
    /\ portal.run[1].searchQuery = "vote today"
    /\ portal.run[1].pc = "done"
    /\ portal.exactBlockchainMatch.found

\* ---------------------------------------------------------------- C30
\* the call of handleSearch in slot r is between its first await and its end
InFlight(r) == portal.run[r].pc \notin {"idle", "done"}

\* no two calls of handleSearch are in flight
OneRunInFlight == Cardinality({r \in PortalRuns : InFlight(r)}) <= 1
\* isSearching is true as long as a call is in flight
SearchingWhileInFlight ==
    (\E r \in PortalRuns : InFlight(r)) => portal.isSearching
\* isSearching is false once every call has ended
IdleWhenNoRun ==
    (\A r \in PortalRuns : ~InFlight(r)) => ~portal.isSearching
\* the exact match shown for a text is the one of the call of handleSearch
\* that started last
ResultsOfLatestRun ==
    (/\ portal.latest # 0
     /\ portal.run[portal.latest].verificationMode = "text"
     /\ portal.exactBlockchainMatch.found)
    => portal.exactBlockchainMatch.contentHash =
         portal.run[portal.latest].bytes32Hash

\* C30: at most one verification run of the portal is in flight at any
\* time, because no second handleSearch starts while isSearching is true;
\* the displayed exact match comes from the most recently started run, and
\* isSearching is false again after every run.
C30_SingleRun ==
    /\ OneRunInFlight
    /\ SearchingWhileInFlight
    /\ ResultsOfLatestRun
    /\ IdleWhenNoRun

====
